---- MODULE Spec2Model ----
(***************************************************************************)
(* DataBuffer<Key> (include/maidsafe/data_store/data_buffer.h): a bounded  *)
(* memory tier and a bounded disk tier, a background worker that copies    *)
(* memory entries to disk, and the public Store / Get / Delete /           *)
(* SetMaxMemoryUsage / SetMaxDiskUsage calls.                              *)
(*                                                                         *)
(* Granularity.  One action is one critical section: the code between two  *)
(* points at which a thread acquires a mutex or blocks on a condition      *)
(* variable.  memLock / diskLock record the holder of each tier's mutex.   *)
(* A thread in a condition wait is in `blocked` until a notify_all on that *)
(* condition (or a spurious wake-up) removes it; it then has to re-acquire *)
(* the mutex.  unlock immediately followed by notify_all is one step.      *)
(* running_ is a std::atomic<bool>; the maxes read across tiers by the     *)
(* resize calls are plain reads under the other tier's mutex, so a resize  *)
(* is two steps (check, assign).                                           *)
(***************************************************************************)
EXTENDS Integers, Sequences, FiniteSets, TLC

VARIABLES
    memMax, memCur, memIndex,      \* memory_store_.max / .current / .index
    diskMax, diskCur, diskIndex,   \* disk_store_.max / .current / .index
    files,                         \* the files under kDiskBuffer_: name -> content
    dirOK,                         \* kDiskBuffer_ still exists
    popFunctor,                    \* kPopFunctor_ is callable
    kShouldRemoveRoot,             \* kShouldRemoveRoot_
    running,                       \* running_
    futValid, workerErr,           \* worker_.valid(), the exception stored in worker_
    memLock, diskLock,             \* holder of memory_store_.mutex / disk_store_.mutex
    blocked,                       \* threads asleep in a condition_variable wait
    pc, op, argK, argV, argN,      \* per thread: position, public call, its arguments
    ret, retV,                     \* per caller: outcome of the call, value returned by Get
    live, gexp, pprev, chain,      \* history: see the section "History variables"
    dlive, began, celSeen, lowered,
    diskGhost, lastPop, evictions

vars ==
    << memMax, memCur, memIndex, diskMax, diskCur, diskIndex, files, dirOK, popFunctor,
       kShouldRemoveRoot,
       running, futValid, workerErr, memLock, diskLock, blocked, pc, op, argK, argV, argN,
       ret, retV, live, gexp, pprev, chain, dlive, began, celSeen, lowered,
       diskGhost, lastPop, evictions >>

----------------------------------------------------------------------------
(* Threads, keys, values *)

Callers == {"c1", "c2", "c3"}
Worker == "w"
Threads == Callers \cup {Worker}
NoThread == "none"

\* Keys are one-byte strings, given by their byte.
Keys == {1, 2, 171}
\* the default-constructed KeyType the worker starts with
NoKey == 0

\* NonEmptyString values: byte sequences; Len is the size that counts against a max.
NoVal == << >>
Values == { <<1>>, <<2>>, <<1, 1>>, <<1, 1, 1>> }

\* StoringState
NotStarted == "kNotStarted"
Started == "kStarted"
Cancelled == "kCancelled"
Completed == "kCompleted"

\* CommonErrors, and the two non-error outcomes of a call
Ok == "ok"
Pending == "pending"
InvalidParameter == "invalid_parameter"
CannotExceedLimit == "cannot_exceed_limit"
FilesystemIoError == "filesystem_io_error"
NoSuchElement == "no_such_element"

----------------------------------------------------------------------------
(* Pure helpers *)

HexChars == << "0", "1", "2", "3", "4", "5", "6", "7", "8", "9", "a", "b", "c", "d", "e", "f" >>

\* HexEncode of a one-byte key: two lower-case hex digits.
HexEncode(key) == HexChars[(key \div 16) + 1] \o HexChars[(key % 16) + 1]

\* kDiskBuffer_ / HexEncode(key), relative to kDiskBuffer_.
GetFilename(key) == HexEncode(key)

MemoryElement(key, value) == [key |-> key, value |-> value, also_on_disk |-> NotStarted]

DiskElement(key) == [key |-> key, state |-> Started]

\* a faulty HasSpace that forgets the space asked for
HasSpaceIgnoringRequired(current, max, required_space) == current >= 0 /\ current <= max

\* store.current <= store.max - required_space on uint64_t.  The model keeps a uint64_t
\* as an integer whose negative values stand for the wrapped ones (c < 0 is 2^64 + c);
\* max and required_space are never wrapped.
HasSpace(current, max, required_space) ==
    LET room == max - required_space
    IN  IF room >= 0 THEN current >= 0 /\ current <= room
        ELSE current >= 0 \/ current <= room

\* std::find_if over a deque: the first position satisfying Test, 0 for end().
FindIf(index, Test(_)) ==
    LET hits == { i \in 1..Len(index) : Test(index[i]) }
    IN  IF hits = {} THEN 0 ELSE CHOOSE i \in hits : \A j \in hits : i <= j

Find(index, key) ==
    LET Test(e) == e.key = key IN FindIf(index, Test)

FindOldestInMemoryOnly ==
    LET Test(e) == e.also_on_disk = NotStarted IN FindIf(memIndex, Test)

\* the find_if inside FindMemoryRemovalCandidate's wait predicate
FindCompletedInMemory ==
    LET Test(e) == e.also_on_disk = Completed IN FindIf(memIndex, Test)

\* a search by key alone, whatever the record's state
FindAnyToStoreOnDisk(key) == Find(diskIndex, key)

FindStartedToStoreOnDisk(key) ==
    LET Test(e) == e.state = Started /\ e.key = key IN FindIf(diskIndex, Test)

\* the record after the front one, when there is one in front of the newest
FindSecondOldestOnDisk == IF Len(diskIndex) > 2 THEN 2 ELSE 1

\* disk_store_.index.begin()
FindOldestOnDisk == 1

\* deque::erase(itr)
Erase(index, i) == SubSeq(index, 1, i - 1) \o SubSeq(index, i + 1, Len(index))

----------------------------------------------------------------------------
(* History variables.  None of them is read by the program's actions.       *)
(*   live[k]     the value of the last Store(k, .) that returned normally,  *)
(*               Gone after a Delete(k) of such a value that returned       *)
(*               normally, NoVal while a Store/Delete of k is in progress,  *)
(*               after one failed, and after the pop functor received k     *)
(*   gexp[t]     live[key] when t's Get began; NoVal once another call on   *)
(*               that key begins or the key is popped                       *)
(*   pprev[t]    v1, when t's current call is Store(k, v2) and its previous *)
(*               call was Store(k, v1) returning normally, v1 # v2          *)
(*   chain[t]    v2, when t's current call is Get(k) and its two previous   *)
(*               calls were Store(k, v1), Store(k, v2) as above             *)
(*   dlive[t]    t's current call is a public Delete(k) begun with live[k]  *)
(*               a value, and no other call on k has begun since            *)
(*   began[t]    what had already happened when t's current call began:     *)
(*               "cel" a Store raised cannot_exceed_limit, "wio" the worker *)
(*               had ended with filesystem_io_error                         *)
(*   celSeen     some Store has raised cannot_exceed_limit                  *)
(*   lowered     some resize has set a max below its previous value         *)
(*   diskGhost   aligned with diskIndex: the value each record was appended *)
(*               for (kept when there is a pop functor), and whether a pop  *)
(*               has taken a record behind it                               *)
(*   lastPop     the arguments of the latest pop functor call of the        *)
(*               disk-write in progress                                     *)
(*   evictions   per thread: pop functor calls made by its disk-write       *)

Gone == << 0 >>
NoPop == [key |-> NoKey, value |-> NoVal]

memTier == << memCur, memIndex >>
diskTier == << diskCur, diskIndex, files, diskGhost >>
maxes == << memMax, diskMax, lowered >>
env == << dirOK, popFunctor, kShouldRemoveRoot >>
future == << futValid, workerErr >>
locks == << memLock, diskLock >>
call == << op, argK, argV, argN >>
result == << ret, retV >>
history == << gexp, pprev, chain, dlive, began >>
hook == << lastPop, evictions >>

InCall(t) == pc[t] \notin {"idle", "done"}

MemWaiters == { t \in Threads : pc[t] \in {"W_wait", "S_wait"} }
DiskWaiters == { t \in Threads : pc[t] \in {"SD_wait", "G_wait"} }

\* a notify_all that wakes nobody
NotifyNobody(b) == b

\* memory_store_.cond_var.notify_all() / disk_store_.cond_var.notify_all()
NotifyMem(b) == b \ MemWaiters
NotifyDisk(b) == b \ DiskWaiters

\* another caller is inside a Store or Delete of key
OtherWriter(t, key) ==
    \E u \in Callers \ {t} : InCall(u) /\ op[u] \in {"Store", "Delete"} /\ argK[u] = key

\* t's public call returns r (Ok, or the error thrown) and, for Get, value v
Return(t, r, v) ==
    /\ pc' = [pc EXCEPT ![t] = "done"]
    /\ ret' = [ret EXCEPT ![t] = r]
    /\ retV' = [retV EXCEPT ![t] = v]
    /\ live' = IF op[t] = "Store"
               THEN [live EXCEPT ![argK[t]] =
                        IF r = Ok /\ ~OtherWriter(t, argK[t]) THEN argV[t] ELSE NoVal]
               ELSE IF op[t] = "Delete"
               THEN [live EXCEPT ![argK[t]] =
                        IF r = Ok /\ dlive[t] THEN Gone ELSE NoVal]
               ELSE live

\* the history of the other callers' calls on key, when a Store/Delete of key begins
Touched(t, key, f, cleared) ==
    [u \in Callers |-> IF u # t /\ InCall(u) /\ argK[u] = key THEN cleared ELSE f[u]]

BeganWith ==
    (IF celSeen THEN {"cel"} ELSE {})
    \cup (IF pc[Worker] = "W_failed" /\ workerErr = FilesystemIoError THEN {"wio"} ELSE {})

----------------------------------------------------------------------------
(* Construction: Init() has checked memory_store_.max <= disk_store_.max,   *)
(* made kDiskBuffer_ and launched the worker.                               *)

InitBuffer(mm, dm, pop, root) ==
    /\ memMax = mm /\ memCur = 0 /\ memIndex = << >>
    /\ diskMax = dm /\ diskCur = 0 /\ diskIndex = << >>
    /\ files = [n \in {} |-> NoVal]
    /\ dirOK = TRUE
    /\ popFunctor = pop
    /\ kShouldRemoveRoot = root
    /\ running = TRUE
    /\ futValid = TRUE /\ workerErr = Ok
    /\ memLock = NoThread /\ diskLock = NoThread
    /\ blocked = {}
    /\ pc = [t \in Threads |-> IF t = Worker THEN "W_idle" ELSE "idle"]
    /\ op = [t \in Callers |-> "none"]
    /\ argK = [t \in Threads |-> NoKey]
    /\ argV = [t \in Threads |-> NoVal]
    /\ argN = [t \in Callers |-> 0]
    /\ ret = [t \in Callers |-> Pending]
    /\ retV = [t \in Callers |-> NoVal]
    /\ live = [k \in Keys |-> NoVal]
    /\ gexp = [t \in Callers |-> NoVal]
    /\ pprev = [t \in Callers |-> NoVal]
    /\ chain = [t \in Callers |-> NoVal]
    /\ dlive = [t \in Callers |-> FALSE]
    /\ began = [t \in Callers |-> {}]
    /\ celSeen = FALSE
    /\ lowered = FALSE
    /\ diskGhost = << >>
    /\ lastPop = NoPop
    /\ evictions = [t \in Threads |-> 0]

\* the constructor without a directory argument: the buffer makes its own directory
InitWith(mm, dm, pop) == InitBuffer(mm, dm, pop, TRUE)

----------------------------------------------------------------------------
(* The public calls begin *)

\* Store(key, value) is entered: its first statement is Delete(key) in a try block
StartStore(t, key, value) ==
    /\ ~InCall(t)
    /\ pc' = [pc EXCEPT ![t] = "D_check"]
    /\ op' = [op EXCEPT ![t] = "Store"]
    /\ argK' = [argK EXCEPT ![t] = key]
    /\ argV' = [argV EXCEPT ![t] = value]
    /\ ret' = [ret EXCEPT ![t] = Pending]
    /\ retV' = [retV EXCEPT ![t] = NoVal]
    /\ live' = [live EXCEPT ![key] = NoVal]
    /\ gexp' = [Touched(t, key, gexp, NoVal) EXCEPT ![t] = NoVal]
    /\ pprev' = [Touched(t, key, pprev, NoVal) EXCEPT ![t] =
                    IF op[t] = "Store" /\ ret[t] = Ok /\ argK[t] = key /\ argV[t] # value
                    THEN argV[t] ELSE NoVal]
    /\ chain' = [Touched(t, key, chain, NoVal) EXCEPT ![t] = NoVal]
    /\ dlive' = [Touched(t, key, dlive, FALSE) EXCEPT ![t] = FALSE]
    /\ began' = [began EXCEPT ![t] = BeganWith]
    /\ UNCHANGED << memTier, diskTier, maxes, env, running, future, locks, blocked, argN,
                    celSeen, hook >>

StartDelete(t, key) ==
    /\ ~InCall(t)
    /\ pc' = [pc EXCEPT ![t] = "D_check"]
    /\ op' = [op EXCEPT ![t] = "Delete"]
    /\ argK' = [argK EXCEPT ![t] = key]
    /\ argV' = [argV EXCEPT ![t] = NoVal]
    /\ ret' = [ret EXCEPT ![t] = Pending]
    /\ retV' = [retV EXCEPT ![t] = NoVal]
    /\ live' = [live EXCEPT ![key] = NoVal]
    /\ gexp' = [Touched(t, key, gexp, NoVal) EXCEPT ![t] = NoVal]
    /\ pprev' = [Touched(t, key, pprev, NoVal) EXCEPT ![t] = NoVal]
    /\ chain' = [Touched(t, key, chain, NoVal) EXCEPT ![t] = NoVal]
    /\ dlive' = [Touched(t, key, dlive, FALSE) EXCEPT ![t] =
                    live[key] \in Values /\ ~OtherWriter(t, key)]
    /\ began' = [began EXCEPT ![t] = BeganWith]
    /\ UNCHANGED << memTier, diskTier, maxes, env, running, future, locks, blocked, argN,
                    celSeen, hook >>

StartGet(t, key) ==
    /\ ~InCall(t)
    /\ pc' = [pc EXCEPT ![t] = "G_check"]
    /\ op' = [op EXCEPT ![t] = "Get"]
    /\ argK' = [argK EXCEPT ![t] = key]
    /\ argV' = [argV EXCEPT ![t] = NoVal]
    /\ ret' = [ret EXCEPT ![t] = Pending]
    /\ retV' = [retV EXCEPT ![t] = NoVal]
    /\ gexp' = [gexp EXCEPT ![t] = live[key]]
    /\ pprev' = [pprev EXCEPT ![t] = NoVal]
    /\ chain' = [chain EXCEPT ![t] =
                    IF op[t] = "Store" /\ ret[t] = Ok /\ argK[t] = key /\ pprev[t] # NoVal
                    THEN argV[t] ELSE NoVal]
    /\ dlive' = [dlive EXCEPT ![t] = FALSE]
    /\ began' = [began EXCEPT ![t] = BeganWith]
    /\ UNCHANGED << memTier, diskTier, maxes, env, running, future, locks, blocked, argN,
                    live, celSeen, hook >>

StartSetMaxMemoryUsage(t, max_memory_usage) ==
    /\ ~InCall(t)
    /\ pc' = [pc EXCEPT ![t] = "M_check"]
    /\ op' = [op EXCEPT ![t] = "SetMaxMemoryUsage"]
    /\ argK' = [argK EXCEPT ![t] = NoKey]
    /\ argV' = [argV EXCEPT ![t] = NoVal]
    /\ argN' = [argN EXCEPT ![t] = max_memory_usage]
    /\ ret' = [ret EXCEPT ![t] = Pending]
    /\ retV' = [retV EXCEPT ![t] = NoVal]
    /\ gexp' = [gexp EXCEPT ![t] = NoVal]
    /\ pprev' = [pprev EXCEPT ![t] = NoVal]
    /\ chain' = [chain EXCEPT ![t] = NoVal]
    /\ dlive' = [dlive EXCEPT ![t] = FALSE]
    /\ began' = [began EXCEPT ![t] = BeganWith]
    /\ UNCHANGED << memTier, diskTier, maxes, env, running, future, locks, blocked,
                    live, celSeen, hook >>

StartSetMaxDiskUsage(t, max_disk_usage) ==
    /\ ~InCall(t)
    /\ pc' = [pc EXCEPT ![t] = "K_check"]
    /\ op' = [op EXCEPT ![t] = "SetMaxDiskUsage"]
    /\ argK' = [argK EXCEPT ![t] = NoKey]
    /\ argV' = [argV EXCEPT ![t] = NoVal]
    /\ argN' = [argN EXCEPT ![t] = max_disk_usage]
    /\ ret' = [ret EXCEPT ![t] = Pending]
    /\ retV' = [retV EXCEPT ![t] = NoVal]
    /\ gexp' = [gexp EXCEPT ![t] = NoVal]
    /\ pprev' = [pprev EXCEPT ![t] = NoVal]
    /\ chain' = [chain EXCEPT ![t] = NoVal]
    /\ dlive' = [dlive EXCEPT ![t] = FALSE]
    /\ began' = [began EXCEPT ![t] = BeganWith]
    /\ UNCHANGED << memTier, diskTier, maxes, env, running, future, locks, blocked,
                    live, celSeen, hook >>

----------------------------------------------------------------------------
(* Files under kDiskBuffer_ *)

FileExists(key) == GetFilename(key) \in DOMAIN files

\* WriteFile(GetFilename(key), value) succeeded
FilesWith(key, value) ==
    [n \in DOMAIN files \cup {GetFilename(key)} |->
        IF n = GetFilename(key) THEN value ELSE files[n]]

\* boost::filesystem::remove(GetFilename(key)) succeeded
FilesWithout(key) == [n \in DOMAIN files \ {GetFilename(key)} |-> files[n]]

\* RemoveFile(key, value) does not throw: file_size and remove succeed
RemoveFileOk(key) == FileExists(key)

\* disk_store_.current after RemoveFile(key, .)
CurrentAfterRemoveFile(key) == diskCur - Len(files[GetFilename(key)])

----------------------------------------------------------------------------
(* CheckWorkerIsStillRunning *)

WorkerReady == pc[Worker] \in {"W_done", "W_failed"}

\* what CheckWorkerIsStillRunning throws (Ok: nothing)
CheckWorkerIsStillRunning ==
    IF futValid /\ pc[Worker] = "W_failed" THEN workerErr
    ELSE IF ~running THEN FilesystemIoError
    ELSE Ok

\* worker_.valid() afterwards: worker_.get() is called on a ready future
ValidAfterCheck == futValid /\ ~WorkerReady

----------------------------------------------------------------------------
(* Delete, also the first statement of Store, where whatever it throws is   *)
(* caught                                                                   *)

\* Delete returns r (Ok, or the error thrown) to the public caller or into Store's try
DeleteDone(t, r) ==
    IF op[t] = "Store"
    THEN /\ pc' = [pc EXCEPT ![t] = "S_check"]
         /\ UNCHANGED << result, live >>
    ELSE Return(t, r, NoVal)

DeleteCheck(t) ==
    /\ pc[t] = "D_check"
    /\ futValid' = ValidAfterCheck
    /\ IF CheckWorkerIsStillRunning = Ok
       THEN /\ pc' = [pc EXCEPT ![t] = "D_mem"]
            /\ UNCHANGED << result, live >>
       ELSE DeleteDone(t, CheckWorkerIsStillRunning)
    /\ UNCHANGED << memTier, diskTier, maxes, env, running, workerErr, locks, blocked, call,
                    history, celSeen, hook >>

DeleteFromMemory(t) ==
    /\ pc[t] = "D_mem"
    /\ memLock = NoThread
    /\ LET itr == Find(memIndex, argK[t])
           also_on_disk == IF itr # 0 THEN memIndex[itr].also_on_disk ELSE Completed
       IN  /\ IF itr # 0
              THEN /\ memCur' = memCur - Len(memIndex[itr].value)
                   /\ memIndex' = Erase(memIndex, itr)
                   /\ blocked' = NotifyMem(blocked)
              ELSE UNCHANGED << memCur, memIndex, blocked >>
           /\ IF also_on_disk # NotStarted
              THEN /\ pc' = [pc EXCEPT ![t] = "D_disk"]
                   /\ UNCHANGED << result, live >>
              ELSE DeleteDone(t, Ok)
    /\ UNCHANGED << diskTier, maxes, env, running, future, locks, call, history, celSeen,
                    hook >>

DeleteFromDisk(t) ==
    /\ pc[t] = "D_disk"
    /\ diskLock = NoThread
    /\ LET itr == Find(diskIndex, argK[t])
       IN  IF itr = 0
           THEN /\ DeleteDone(t, NoSuchElement)
                /\ UNCHANGED << diskTier, blocked >>
           ELSE IF diskIndex[itr].state = Started
           THEN /\ diskIndex' = [diskIndex EXCEPT ![itr].state = Cancelled]
                /\ blocked' = NotifyDisk(blocked)
                /\ DeleteDone(t, Ok)
                /\ UNCHANGED << diskCur, files, diskGhost >>
           ELSE IF diskIndex[itr].state = Completed /\ ~RemoveFileOk(argK[t])
           THEN /\ DeleteDone(t, FilesystemIoError)
                /\ UNCHANGED << diskTier, blocked >>
           ELSE IF diskIndex[itr].state = Completed
           THEN /\ diskCur' = CurrentAfterRemoveFile(argK[t])
                /\ files' = FilesWithout(argK[t])
                /\ diskIndex' = Erase(diskIndex, itr)
                /\ diskGhost' = Erase(diskGhost, itr)
                /\ blocked' = NotifyDisk(blocked)
                /\ DeleteDone(t, Ok)
           ELSE /\ blocked' = NotifyDisk(blocked)
                /\ DeleteDone(t, Ok)
                /\ UNCHANGED diskTier
    /\ UNCHANGED << memTier, maxes, env, running, future, locks, call, history, celSeen,
                    hook >>

----------------------------------------------------------------------------
(* Store: CheckWorkerIsStillRunning, StoreInMemory, WaitForSpaceInMemory     *)

StoreCheck(t) ==
    /\ pc[t] = "S_check"
    /\ futValid' = ValidAfterCheck
    /\ IF CheckWorkerIsStillRunning = Ok
       THEN /\ pc' = [pc EXCEPT ![t] = "S_mem"]
            /\ UNCHANGED << result, live >>
       ELSE Return(t, CheckWorkerIsStillRunning, NoVal)
    /\ UNCHANGED << memTier, diskTier, maxes, env, running, workerErr, locks, blocked, call,
                    history, celSeen, hook >>

\* StoreInMemory takes the memory mutex and compares the size with memory_store_.max
StoreInMemory(t) ==
    /\ pc[t] = "S_mem"
    /\ memLock = NoThread
    /\ memLock' = t
    /\ pc' = [pc EXCEPT ![t] = IF Len(argV[t]) > memMax THEN "S_lockdisk" ELSE "S_wsm"]
    /\ UNCHANGED << memTier, diskTier, maxes, env, running, future, diskLock, blocked, call,
                    result, live, history, celSeen, hook >>

\* a return of the disk lock that does not let go of the memory mutex
StoreLockDiskKeepMemory(t) ==
    /\ pc[t] = "S_lockdisk"
    /\ memLock = t
    /\ diskLock = NoThread
    /\ diskLock' = t
    /\ pc' = [pc EXCEPT ![t] = "SD_start"]
    /\ UNCHANGED << memTier, diskTier, maxes, env, running, future, memLock, blocked, call,
                    result, live, history, celSeen, hook >>

\* return std::unique_lock<std::mutex>(disk_store_.mutex), the memory mutex still held
StoreLockDisk(t) ==
    /\ pc[t] = "S_lockdisk"
    /\ memLock = t
    /\ diskLock = NoThread
    /\ diskLock' = t
    /\ memLock' = NoThread
    /\ pc' = [pc EXCEPT ![t] = "SD_start"]
    /\ UNCHANGED << memTier, diskTier, maxes, env, running, future, blocked, call, result,
                    live, history, celSeen, hook >>

\* memory_store_.current += required_space; index.emplace_back(key, value); unlock; notify
InsertInMemory(t) ==
    /\ memCur' = memCur + Len(argV[t])
    /\ memIndex' = Append(memIndex, MemoryElement(argK[t], argV[t]))
    /\ memLock' = NoThread
    /\ blocked' = NotifyMem(blocked)
    /\ Return(t, Ok, NoVal)

\* an erase that leaves memory_store_.current as it is
EraseCandidateOnly(itr) ==
    /\ memCur' = memCur
    /\ memIndex' = Erase(memIndex, itr)

\* erase the removal candidate found by FindMemoryRemovalCandidate
EraseCandidate(itr) ==
    /\ memCur' = memCur - Len(memIndex[itr].value)
    /\ memIndex' = Erase(memIndex, itr)

\* One pass of WaitForSpaceInMemory's loop, and StoreInMemory's statements after it,
\* with the memory mutex held.
WaitForSpaceInMemory(t) ==
    /\ pc[t] = "S_wsm"
    /\ memLock = t
    /\ IF HasSpace(memCur, memMax, Len(argV[t])) /\ running
       THEN InsertInMemory(t)
       ELSE IF ~running
       THEN /\ pc' = [pc EXCEPT ![t] = "S_join"]
            /\ UNCHANGED << memTier, memLock, blocked, result, live >>
       ELSE IF FindCompletedInMemory # 0
       THEN /\ EraseCandidate(FindCompletedInMemory)
            /\ UNCHANGED << pc, memLock, blocked, result, live >>
       ELSE /\ pc' = [pc EXCEPT ![t] = "S_towait"]
            /\ UNCHANGED << memTier, memLock, blocked, result, live >>
    /\ UNCHANGED << diskTier, maxes, env, running, future, diskLock, call, history, celSeen,
                    hook >>

\* memory_store_.cond_var.wait: the predicate was false, the mutex is released
StoreBlock(t) ==
    /\ pc[t] = "S_towait"
    /\ memLock = t
    /\ memLock' = NoThread
    /\ blocked' = blocked \cup {t}
    /\ pc' = [pc EXCEPT ![t] = "S_wait"]
    /\ UNCHANGED << memTier, diskTier, maxes, env, running, future, diskLock, call, result,
                    live, history, celSeen, hook >>

\* woken in FindMemoryRemovalCandidate: the predicate is evaluated again and, when it
\* holds, the iterator it found is returned and erased unless running_ is false
StoreWake(t) ==
    /\ pc[t] = "S_wait"
    /\ t \notin blocked
    /\ memLock = NoThread
    /\ memLock' = t
    /\ LET itr == FindCompletedInMemory
       IN  IF itr = 0 /\ ~HasSpace(memCur, memMax, Len(argV[t])) /\ running
           THEN /\ pc' = [pc EXCEPT ![t] = "S_towait"]
                /\ UNCHANGED memTier
           ELSE IF ~running
           THEN /\ pc' = [pc EXCEPT ![t] = "S_join"]
                /\ UNCHANGED memTier
           ELSE IF itr # 0
           THEN /\ EraseCandidate(itr)
                /\ pc' = [pc EXCEPT ![t] = "S_wsm"]
           ELSE /\ pc' = [pc EXCEPT ![t] = "S_wsm"]
                /\ UNCHANGED memTier
    /\ UNCHANGED << diskTier, maxes, env, running, future, diskLock, blocked, call, result,
                    live, history, celSeen, hook >>

\* StoreInMemory found running_ false: worker_.get() under worker_mutex_, with the
\* memory mutex held; it blocks until the worker has ended, rethrows what the worker
\* threw, and otherwise Store returns normally
StoreJoin(t) ==
    /\ pc[t] = "S_join"
    /\ memLock = t
    /\ futValid => WorkerReady
    /\ futValid' = FALSE
    /\ memLock' = NoThread
    /\ IF futValid /\ pc[Worker] = "W_failed"
       THEN Return(t, workerErr, NoVal)
       ELSE Return(t, Ok, NoVal)
    /\ UNCHANGED << memTier, diskTier, maxes, env, running, workerErr, diskLock, blocked,
                    call, history, celSeen, hook >>

----------------------------------------------------------------------------
(* StoreOnDisk and WaitForSpaceOnDisk, run by the worker and, for a value    *)
(* larger than memory_store_.max, by the caller of Store.  The disk mutex is *)
(* held by t on entry.                                                       *)

\* bound of the model: the longest disk index a disk-write may append to
MaxDiskLen == 4

\* an exception leaves StoreOnDisk: the worker's future stores it, a caller's Store
\* throws it
Throw(t, error) ==
    IF t = Worker
    THEN /\ pc' = [pc EXCEPT ![t] = "W_failed"]
         /\ workerErr' = error
         /\ UNCHANGED << result, live >>
    ELSE /\ Return(t, error, NoVal)
         /\ UNCHANGED workerErr

\* StoreOnDisk returns normally: the worker goes on in CopyQueueToDisk, a caller's
\* Store returns
StoreOnDiskReturns(t) ==
    IF t = Worker
    THEN /\ pc' = [pc EXCEPT ![t] = "W_relock"]
         /\ UNCHANGED << result, live >>
    ELSE Return(t, Ok, NoVal)

\* the size check, and index.emplace_back(key)
StoreOnDisk(t) ==
    /\ pc[t] = "SD_start"
    /\ diskLock = t
    /\ IF Len(argV[t]) > diskMax
       THEN \* StopRunning(); ThrowError(cannot_exceed_limit)
            /\ running' = FALSE
            /\ blocked' = NotifyMem(NotifyDisk(blocked))
            /\ diskLock' = NoThread
            /\ celSeen' = TRUE
            /\ Throw(t, CannotExceedLimit)
            /\ UNCHANGED << diskTier, evictions >>
       ELSE /\ Len(diskIndex) < MaxDiskLen
            /\ diskIndex' = Append(diskIndex, DiskElement(argK[t]))
            /\ diskGhost' = Append(diskGhost, [val |-> IF popFunctor THEN argV[t] ELSE NoVal,
                                                skipped |-> FALSE])
            /\ evictions' = [evictions EXCEPT ![t] = 0]
            /\ pc' = [pc EXCEPT ![t] = "SD_wsd"]
            /\ UNCHANGED << diskCur, files, running, blocked, diskLock, celSeen, workerErr,
                            result, live >>
    /\ UNCHANGED << memTier, maxes, env, futValid, memLock, call, history, lastPop >>

\* t is at WaitForSpaceOnDisk's loop condition, for the first time or after a wait
InWaitLoop(t) == pc[t] \in {"SD_wsd", "SD_woken"}

\* a loop condition that asks for one byte more than the value needs
MustWaitForSpaceOnDiskOneMore(t) == ~HasSpace(diskCur, diskMax, Len(argV[t]) + 1) /\ running

\* a loop condition that does not read running_
MustWaitIgnoringRunning(t) == ~HasSpace(diskCur, diskMax, Len(argV[t]))

\* WaitForSpaceOnDisk's loop condition
MustWaitForSpaceOnDisk(t) == ~HasSpace(diskCur, diskMax, Len(argV[t])) /\ running

\* The loop is left (or not entered) with cancelled = false: StoreOnDisk returns at once
\* when running_ is false, and otherwise writes the file, marks the first Started record
\* of the key Completed, adds the size, unlocks and notifies.
StoreOnDiskWrite(t) ==
    /\ InWaitLoop(t)
    /\ diskLock = t
    /\ ~MustWaitForSpaceOnDisk(t)
    /\ IF ~running
       THEN \* return, the lock still owned by the caller's frame
            /\ StoreOnDiskReturns(t)
            /\ diskLock' = IF t = Worker THEN t ELSE NoThread
            /\ UNCHANGED << diskTier, running, blocked, workerErr >>
       ELSE IF ~dirOK
       THEN \* WriteFile failed: StopRunning(); ThrowError(filesystem_io_error)
            /\ running' = FALSE
            /\ blocked' = NotifyMem(NotifyDisk(blocked))
            /\ diskLock' = NoThread
            /\ Throw(t, FilesystemIoError)
            /\ UNCHANGED diskTier
       ELSE /\ files' = FilesWith(argK[t], argV[t])
            /\ LET itr == FindStartedToStoreOnDisk(argK[t])
               IN  diskIndex' = IF itr # 0
                                THEN [diskIndex EXCEPT ![itr].state = Completed]
                                ELSE diskIndex
            /\ diskCur' = diskCur + Len(argV[t])
            /\ diskLock' = NoThread
            /\ blocked' = NotifyDisk(blocked)
            /\ StoreOnDiskReturns(t)
            /\ UNCHANGED << diskGhost, running, workerErr >>
    /\ lastPop' = NoPop
    /\ evictions' = [evictions EXCEPT ![t] = 0]
    /\ UNCHANGED << memTier, maxes, env, futValid, memLock, call, history, celSeen >>

\* In the loop: the key's record is gone, or is Cancelled and is erased; cancelled = true,
\* StoreOnDisk unlocks, notifies and returns without writing.
StoreOnDiskCancelled(t) ==
    /\ InWaitLoop(t)
    /\ diskLock = t
    /\ MustWaitForSpaceOnDisk(t)
    /\ LET itr == Find(diskIndex, argK[t])
       IN  /\ itr = 0 \/ diskIndex[itr].state = Cancelled
           /\ diskIndex' = IF itr = 0 THEN diskIndex ELSE Erase(diskIndex, itr)
           /\ diskGhost' = IF itr = 0 THEN diskGhost ELSE Erase(diskGhost, itr)
    /\ diskLock' = NoThread
    /\ blocked' = NotifyDisk(blocked)
    /\ StoreOnDiskReturns(t)
    /\ lastPop' = NoPop
    /\ evictions' = [evictions EXCEPT ![t] = 0]
    /\ UNCHANGED << memTier, diskCur, files, maxes, env, running, future, memLock, call,
                    history, celSeen >>

\* the key's own record is there and not Cancelled
OwnRecordPending(t) ==
    LET itr == Find(diskIndex, argK[t])
    IN  itr # 0 /\ diskIndex[itr].state # Cancelled

\* records in front of position itr are marked as passed over by a pop
PassedOver(itr) ==
    [i \in 1..Len(diskGhost) |->
        IF i < itr THEN [diskGhost[i] EXCEPT !.skipped = TRUE] ELSE diskGhost[i]]

\* In the loop with a pop functor: the record FindOldestOnDisk returns, when Completed,
\* has its file read and removed (RemoveFile), is erased, and is handed to the functor;
\* RemoveFile's filesystem_io_error leaves StoreOnDisk without StopRunning.  A front
\* record that is not Completed changes nothing and the loop goes round again.
StoreOnDiskPop(t) ==
    /\ InWaitLoop(t)
    /\ diskLock = t
    /\ MustWaitForSpaceOnDisk(t)
    /\ OwnRecordPending(t)
    /\ popFunctor
    /\ LET itr == FindOldestOnDisk
           oldest_key == diskIndex[itr].key
       IN  IF diskIndex[itr].state # Completed
           THEN UNCHANGED << pc, diskTier, diskLock, workerErr, result, live, gexp, dlive,
                             hook >>
           ELSE IF ~RemoveFileOk(oldest_key)
           THEN /\ diskLock' = NoThread
                /\ Throw(t, FilesystemIoError)
                /\ lastPop' = NoPop
                /\ evictions' = [evictions EXCEPT ![t] = 0]
                /\ UNCHANGED << diskTier, gexp, dlive >>
           ELSE /\ diskCur' = CurrentAfterRemoveFile(oldest_key)
                /\ files' = FilesWithout(oldest_key)
                /\ diskIndex' = Erase(diskIndex, itr)
                /\ diskGhost' = Erase(PassedOver(itr), itr)
                /\ lastPop' = [key |-> oldest_key, value |-> files[GetFilename(oldest_key)]]
                /\ evictions' = [evictions EXCEPT ![t] = @ + 1]
                /\ live' = [live EXCEPT ![oldest_key] = NoVal]
                /\ gexp' = [u \in Callers |->
                               IF InCall(u) /\ argK[u] = oldest_key THEN NoVal ELSE gexp[u]]
                /\ dlive' = [u \in Callers |->
                               IF InCall(u) /\ argK[u] = oldest_key THEN FALSE ELSE dlive[u]]
                /\ UNCHANGED << pc, diskLock, workerErr, result >>
    /\ UNCHANGED << memTier, maxes, env, running, futValid, memLock, blocked, call, pprev,
                    chain, began, celSeen >>

\* In the loop without a pop functor: disk_store_.cond_var.wait(disk_store_lock)
StoreOnDiskWait(t) ==
    /\ InWaitLoop(t)
    /\ diskLock = t
    /\ MustWaitForSpaceOnDisk(t)
    /\ OwnRecordPending(t)
    /\ ~popFunctor
    /\ diskLock' = NoThread
    /\ blocked' = blocked \cup {t}
    /\ pc' = [pc EXCEPT ![t] = "SD_wait"]
    /\ UNCHANGED << memTier, diskTier, maxes, env, running, future, memLock, call, result,
                    live, history, celSeen, hook >>

\* woken from that wait: the mutex is taken again and the loop condition is evaluated
StoreOnDiskWake(t) ==
    /\ pc[t] = "SD_wait"
    /\ t \notin blocked
    /\ diskLock = NoThread
    /\ diskLock' = t
    /\ pc' = [pc EXCEPT ![t] = "SD_woken"]
    /\ UNCHANGED << memTier, diskTier, maxes, env, running, future, memLock, blocked, call,
                    result, live, history, celSeen, hook >>

----------------------------------------------------------------------------
(* CopyQueueToDisk, the worker *)

\* The wait predicate under the memory mutex, on entry to the loop and after a wake-up:
\* return when running_ is false, else copy the oldest kNotStarted entry's key and value
\* and mark it kStarted.
CopyQueueToDisk ==
    /\ \/ pc[Worker] = "W_idle"
       \/ pc[Worker] = "W_wait" /\ Worker \notin blocked
    /\ memLock = NoThread
    /\ LET itr == FindOldestInMemoryOnly
       IN  IF itr = 0 /\ running
           THEN /\ pc' = [pc EXCEPT ![Worker] = "W_towait"]
                /\ memLock' = Worker
                /\ UNCHANGED << memIndex, argK, argV >>
           ELSE IF ~running
           THEN /\ pc' = [pc EXCEPT ![Worker] = "W_done"]
                /\ UNCHANGED << memLock, memIndex, argK, argV >>
           ELSE /\ argK' = [argK EXCEPT ![Worker] = memIndex[itr].key]
                /\ argV' = [argV EXCEPT ![Worker] = memIndex[itr].value]
                /\ memIndex' = [memIndex EXCEPT ![itr].also_on_disk = Started]
                /\ memLock' = Worker
                /\ pc' = [pc EXCEPT ![Worker] = "W_lockdisk"]
    /\ UNCHANGED << memCur, diskTier, maxes, env, running, future, diskLock, blocked, op,
                    argN, result, live, history, celSeen, hook >>

\* memory_store_.cond_var.wait: the predicate was false, the mutex is released
WorkerBlock ==
    /\ pc[Worker] = "W_towait"
    /\ memLock = Worker
    /\ memLock' = NoThread
    /\ blocked' = blocked \cup {Worker}
    /\ pc' = [pc EXCEPT ![Worker] = "W_wait"]
    /\ UNCHANGED << memTier, diskTier, maxes, env, running, future, diskLock, call, result,
                    live, history, celSeen, hook >>

\* the disk mutex is taken with the memory mutex held, which is then released
WorkerLockDisk ==
    /\ pc[Worker] = "W_lockdisk"
    /\ memLock = Worker
    /\ diskLock = NoThread
    /\ diskLock' = Worker
    /\ memLock' = NoThread
    /\ pc' = [pc EXCEPT ![Worker] = "SD_start"]
    /\ UNCHANGED << memTier, diskTier, maxes, env, running, future, blocked, call, result,
                    live, history, celSeen, hook >>

\* after StoreOnDisk: memory_store_lock.lock(), the entry found by key is marked
\* kCompleted, both locks go out of scope, notify_all
WorkerMarkCompleted ==
    /\ pc[Worker] = "W_relock"
    /\ memLock = NoThread
    /\ LET itr == Find(memIndex, argK[Worker])
       IN  memIndex' = IF itr # 0
                       THEN [memIndex EXCEPT ![itr].also_on_disk = Completed]
                       ELSE memIndex
    /\ diskLock' = IF diskLock = Worker THEN NoThread ELSE diskLock
    /\ blocked' = NotifyMem(blocked)
    /\ pc' = [pc EXCEPT ![Worker] = "W_idle"]
    /\ UNCHANGED << memCur, diskTier, maxes, env, running, future, memLock, call, result,
                    live, history, celSeen, hook >>

----------------------------------------------------------------------------
(* Get *)

GetCheck(t) ==
    /\ pc[t] = "G_check"
    /\ futValid' = ValidAfterCheck
    /\ IF CheckWorkerIsStillRunning = Ok
       THEN /\ pc' = [pc EXCEPT ![t] = "G_mem"]
            /\ UNCHANGED << result, live >>
       ELSE Return(t, CheckWorkerIsStillRunning, NoVal)
    /\ UNCHANGED << memTier, diskTier, maxes, env, running, workerErr, locks, blocked, call,
                    history, celSeen, hook >>

GetFromMemory(t) ==
    /\ pc[t] = "G_mem"
    /\ memLock = NoThread
    /\ LET itr == Find(memIndex, argK[t])
       IN  IF itr # 0
           THEN Return(t, Ok, memIndex[itr].value)
           ELSE /\ pc' = [pc EXCEPT ![t] = "G_disk"]
                /\ UNCHANGED << result, live >>
    /\ UNCHANGED << memTier, diskTier, maxes, env, running, future, locks, blocked, call,
                    history, celSeen, hook >>

\* Under the disk mutex, on entry and after a wake-up: FindAndThrowIfCancelled, the wait
\* while the record is kStarted, ReadFile.
GetFromDisk(t) ==
    /\ \/ pc[t] = "G_disk"
       \/ pc[t] = "G_wait" /\ t \notin blocked
    /\ diskLock = NoThread
    /\ LET itr == Find(diskIndex, argK[t])
       IN  IF itr = 0 \/ diskIndex[itr].state = Cancelled
           THEN /\ Return(t, NoSuchElement, NoVal)
                /\ UNCHANGED blocked
           ELSE IF diskIndex[itr].state = Started
           THEN /\ pc' = [pc EXCEPT ![t] = "G_wait"]
                /\ blocked' = blocked \cup {t}
                /\ UNCHANGED << result, live >>
           ELSE IF FileExists(argK[t])
           THEN /\ Return(t, Ok, files[GetFilename(argK[t])])
                /\ UNCHANGED blocked
           ELSE /\ Return(t, FilesystemIoError, NoVal)
                /\ UNCHANGED blocked
    /\ UNCHANGED << memTier, diskTier, maxes, env, running, future, locks, call, history,
                    celSeen, hook >>

\* a comparison that also rejects equal maxes
MemoryReachesDisk(memory_max, disk_max) == memory_max >= disk_max

\* the comparison of Init, SetMaxMemoryUsage and SetMaxDiskUsage:
\* memory max > disk max
MemoryExceedsDisk(memory_max, disk_max) == memory_max > disk_max

----------------------------------------------------------------------------
(* SetMaxMemoryUsage, SetMaxDiskUsage: the other tier's max is read under this tier's *)
(* mutex only                                                                         *)

SetMaxMemoryUsageCheck(t) ==
    /\ pc[t] = "M_check"
    /\ memLock = NoThread
    /\ IF MemoryExceedsDisk(argN[t], diskMax)
       THEN /\ Return(t, InvalidParameter, NoVal)
            /\ UNCHANGED memLock
       ELSE /\ pc' = [pc EXCEPT ![t] = "M_set"]
            /\ memLock' = t
            /\ UNCHANGED << result, live >>
    /\ UNCHANGED << memTier, diskTier, maxes, env, running, future, diskLock, blocked, call,
                    history, celSeen, hook >>

SetMaxMemoryUsage(t) ==
    /\ pc[t] = "M_set"
    /\ memLock = t
    /\ memMax' = argN[t]
    /\ lowered' = (lowered \/ argN[t] < memMax)
    /\ memLock' = NoThread
    /\ blocked' = NotifyMem(blocked)
    /\ Return(t, Ok, NoVal)
    /\ UNCHANGED << memTier, diskTier, diskMax, env, running, future, diskLock, call,
                    history, celSeen, hook >>

SetMaxDiskUsageCheck(t) ==
    /\ pc[t] = "K_check"
    /\ diskLock = NoThread
    /\ IF MemoryExceedsDisk(memMax, argN[t])
       THEN /\ Return(t, InvalidParameter, NoVal)
            /\ UNCHANGED diskLock
       ELSE /\ pc' = [pc EXCEPT ![t] = "K_set"]
            /\ diskLock' = t
            /\ UNCHANGED << result, live >>
    /\ UNCHANGED << memTier, diskTier, maxes, env, running, future, memLock, blocked, call,
                    history, celSeen, hook >>

SetMaxDiskUsage(t) ==
    /\ pc[t] = "K_set"
    /\ diskLock = t
    /\ diskMax' = argN[t]
    /\ lowered' = (lowered \/ argN[t] < diskMax)
    /\ diskLock' = NoThread
    /\ blocked' = IF argN[t] > diskMax THEN NotifyDisk(blocked) ELSE blocked
    /\ Return(t, Ok, NoVal)
    /\ UNCHANGED << memTier, diskTier, memMax, env, running, future, memLock, call,
                    history, celSeen, hook >>

----------------------------------------------------------------------------
(* The environment *)

\* kDiskBuffer_ is removed from outside, with every file in it
RemoveDirectory ==
    /\ dirOK
    /\ dirOK' = FALSE
    /\ files' = [n \in {} |-> NoVal]
    /\ UNCHANGED << memTier, diskCur, diskIndex, diskGhost, maxes, popFunctor, kShouldRemoveRoot,
                    running, future, locks, blocked, pc, call, result, live, history, celSeen, hook >>

\* a condition_variable wait may return without a notify
SpuriousWake(t) ==
    /\ t \in blocked
    /\ blocked' = blocked \ {t}
    /\ UNCHANGED << memTier, diskTier, maxes, env, running, future, locks, pc, call, result,
                    live, history, celSeen, hook >>

----------------------------------------------------------------------------
(* Specifications *)

\* the steps of the worker
WorkerStep ==
    \/ CopyQueueToDisk
    \/ WorkerBlock
    \/ WorkerLockDisk
    \/ WorkerMarkCompleted

\* the steps of Delete, also taken at the start of Store
DeleteStep(t) ==
    \/ DeleteCheck(t)
    \/ DeleteFromMemory(t)
    \/ DeleteFromDisk(t)

\* the steps of Store up to the insertion in memory or the disk-write
StoreStep(t) ==
    \/ StoreCheck(t)
    \/ StoreInMemory(t)
    \/ StoreLockDisk(t)
    \/ WaitForSpaceInMemory(t)

\* the steps of Get
GetStep(t) ==
    \/ GetCheck(t)
    \/ GetFromMemory(t)
    \/ GetFromDisk(t)

\* the disk-write steps when there is room on disk
DiskWriteStep(t) ==
    \/ StoreOnDisk(t)
    \/ StoreOnDiskWrite(t)

\* the disk-write steps when there is no room and no pop functor
DiskWaitStep(t) ==
    \/ StoreOnDiskCancelled(t)
    \/ StoreOnDiskWait(t)
    \/ StoreOnDiskWake(t)

\* the caller's wait for room in memory
MemoryWaitStep(t) ==
    \/ StoreBlock(t)
    \/ StoreWake(t)

\* bounds of the model: the maxes the buffer is constructed with
MemoryMax == 1
DiskMax == 2

\* a value that fits in memory, one that goes straight to disk, one larger than the disk
SmallValue == << 1 >>
LargeValue == << 1, 1 >>
HugeValue == << 1, 1, 1 >>

----------------------------------------------------------------------------
(* One caller, no pop functor.                                              *)

Init == InitWith(MemoryMax, DiskMax, FALSE)

Next ==
    \/ \E k \in {1, 2}, v \in {SmallValue, LargeValue} : StartStore("c1", k, v)
    \/ \E k \in {1, 2} : StartGet("c1", k)
    \/ \E k \in {1, 2} : StartDelete("c1", k)
    \/ DeleteStep("c1") \/ StoreStep("c1") \/ GetStep("c1")
    \/ MemoryWaitStep("c1")
    \/ \E t \in {"c1", Worker} : DiskWriteStep(t) \/ DiskWaitStep(t)
    \/ WorkerStep
    \/ \E t \in {"c1", Worker} : SpuriousWake(t)

Spec == Init /\ [][Next]_vars

\* C1: with no pop functor and the buffer not stopped, a Get(k) that begins after a
\* Store(k, v) returned normally, with no Store or Delete of k begun since, returns v.
C1_GetReturnsStored ==
    \A t \in Callers :
        (pc[t] = "done" /\ op[t] = "Get" /\ gexp[t] \in Values /\ running /\ ~popFunctor)
            => (ret[t] = Ok /\ retV[t] = gexp[t])

\* C2: when one caller's Store(k, v1) and Store(k, v2), v1 # v2, both returned normally
\* and its next call is Get(k), that Get returns v2.
C2_GetReturnsSecondStore ==
    \A t \in Callers :
        (pc[t] = "done" /\ op[t] = "Get" /\ chain[t] # NoVal)
            => (ret[t] = Ok /\ retV[t] = chain[t])

\* C3: a Delete(k) begun when the last Store(k, .) had returned normally, with k neither
\* deleted nor handed to the pop functor since, returns without error, and a Get(k)
\* begun after it fails with no_such_element.
C3_DeleteThenGetFails ==
    \A t \in Callers :
        /\ (pc[t] = "done" /\ op[t] = "Delete" /\ dlive[t]) => ret[t] = Ok
        /\ (pc[t] = "done" /\ op[t] = "Get" /\ gexp[t] = Gone) => ret[t] = NoSuchElement

----------------------------------------------------------------------------
(* One caller stores, reads and deletes one key and sets the memory max,     *)
(* while a second caller sets the disk max; no pop functor.                  *)

\* the steps of SetMaxMemoryUsage and SetMaxDiskUsage
ResizeStep(t) ==
    \/ SetMaxMemoryUsageCheck(t)
    \/ SetMaxMemoryUsage(t)
    \/ SetMaxDiskUsageCheck(t)
    \/ SetMaxDiskUsage(t)

\* bound of the model: the largest max a resize asks for
MaxResize == 3

NextResize ==
    \/ \E n \in 1..MaxResize : StartSetMaxMemoryUsage("c1", n)
    \/ \E n \in 1..MaxResize : StartSetMaxDiskUsage("c2", n)
    \/ \E t \in Callers : ResizeStep(t)
    \/ \E v \in {SmallValue, LargeValue} : StartStore("c1", 1, v)
    \/ StartDelete("c1", 1)
    \/ StartGet("c1", 1)
    \/ DeleteStep("c1") \/ StoreStep("c1") \/ GetStep("c1")
    \/ \E t \in {"c1", Worker} : DiskWriteStep(t)
    \/ WorkerStep

SpecResize == Init /\ [][NextResize]_vars

C5_MemoryMaxWithinDiskMax ==
    memMax <= diskMax

----------------------------------------------------------------------------
(* One caller, no pop functor, and values larger than the disk max.         *)

NextFatal ==
    \/ \E k \in {1, 2}, v \in {SmallValue, LargeValue, HugeValue} : StartStore("c1", k, v)
    \/ \E k \in {1, 2} : StartGet("c1", k)
    \/ \E k \in {1, 2} : StartDelete("c1", k)
    \/ DeleteStep("c1") \/ StoreStep("c1") \/ GetStep("c1")
    \/ MemoryWaitStep("c1")
    \/ \E t \in {"c1", Worker} : DiskWriteStep(t) \/ DiskWaitStep(t)
    \/ WorkerStep

SpecFatal == Init /\ [][NextFatal]_vars

\* key has an entry in memory, or a record on disk that is not kCancelled
HasRecord(key) ==
    \/ \E i \in 1..Len(memIndex) : memIndex[i].key = key
    \/ \E i \in 1..Len(diskIndex) : diskIndex[i].key = key /\ diskIndex[i].state # Cancelled

\* C6: a Store(k, v) with v larger than disk_store_.max, begun on a buffer that no
\* earlier such Store has stopped, fails with cannot_exceed_limit and leaves no memory
\* entry and no kStarted or kCompleted disk record for k; every Store, Get and Delete
\* begun after one has failed so fails too.
C6_ExceedLimitIsFatal ==
    \A t \in Callers :
        /\ (pc[t] = "done" /\ op[t] = "Store" /\ Len(argV[t]) > diskMax /\ began[t] = {})
               => (ret[t] = CannotExceedLimit /\ ~HasRecord(argK[t]))
        /\ (pc[t] = "done" /\ "cel" \in began[t]) => ret[t] # Ok

----------------------------------------------------------------------------------------------------------------------------------------
(* One caller and a pop functor; the directory of the disk tier may be       *)
(* removed from outside.                                                     *)

InitPop == InitWith(MemoryMax, DiskMax, TRUE)

NextIo ==
    \/ \E k \in {1, 2}, v \in {SmallValue, LargeValue} : StartStore("c1", k, v)
    \/ \E k \in {1, 2} : StartGet("c1", k)
    \/ \E k \in {1, 2} : StartDelete("c1", k)
    \/ DeleteStep("c1") \/ StoreStep("c1") \/ GetStep("c1")
    \/ MemoryWaitStep("c1")
    \/ \E t \in {"c1", Worker} : DiskWriteStep(t) \/ StoreOnDiskPop(t)
    \/ WorkerStep
    \/ RemoveDirectory

SpecIo == InitPop /\ [][NextIo]_vars

\* C7: a Store, Get or Delete begun after the worker has ended with
\* filesystem_io_error does not return normally.
C7_FailsAfterWorkerError ==
    \A t \in Callers :
        (pc[t] = "done" /\ op[t] \in {"Store", "Get", "Delete"} /\ "wio" \in began[t])
            => ret[t] # Ok

----------------------------------------------------------------------------
(* One caller, three keys and a pop functor.                                 *)

NextPop ==
    \/ \E k \in Keys, v \in {SmallValue, LargeValue} : StartStore("c1", k, v)
    \/ \E k \in Keys : StartGet("c1", k)
    \/ \E k \in Keys : StartDelete("c1", k)
    \/ DeleteStep("c1") \/ StoreStep("c1") \/ GetStep("c1")
    \/ MemoryWaitStep("c1")
    \/ \E t \in {"c1", Worker} : DiskWriteStep(t) \/ StoreOnDiskPop(t)
    \/ WorkerStep

SpecPop == InitPop /\ [][NextPop]_vars

\* the pop functor is invoked in this step by thread t
PopFunctorInvoked(t) == evictions'[t] = evictions[t] + 1

\* C9: every invocation of the pop functor is for the front record of the disk
\* index, which is Completed and the oldest record there is; the functor gets that
\* record's key and the value that was stored under the key, the record leaves the
\* index, and no record is ever passed over by a pop, so successive invocations
\* follow the order in which the records were appended.
C9_PopsOldestWithStoredValue ==
    /\ [][\A t \in {"c1", Worker} :
            PopFunctorInvoked(t) =>
                /\ diskIndex[1].state = Completed
                /\ lastPop'.key = diskIndex[1].key
                /\ lastPop'.value = diskGhost[1].val
                /\ lastPop'.value \in Values
                /\ diskIndex' = Tail(diskIndex)]_vars
    /\ [](\A i \in 1..Len(diskGhost) : ~diskGhost[i].skipped)

\* two pops in one disk-write: the second one took the record appended second
C9_PoppedTwoInOrder ==
    /\ evictions["c1"] = 2
    /\ lastPop # NoPop
    /\ Len(diskIndex) = 1

\* C10: the pop functor is invoked only when the value being written does not fit,
\* and at every point of WaitForSpaceOnDisk's loop the value did not fit before the
\* latest pop: the records popped are the smallest prefix of the oldest records
\* that makes room.
C10_PopsOnlyWhileNoRoom ==
    /\ [][\A t \in {"c1", Worker} :
            PopFunctorInvoked(t) => ~HasSpace(diskCur, diskMax, Len(argV[t]))]_vars
    /\ [](\A t \in {"c1", Worker} :
            (InWaitLoop(t) /\ evictions[t] > 0)
                => ~HasSpace(diskCur + Len(lastPop.value), diskMax, Len(argV[t])))

\* a 2-byte value written to a disk full of 1-byte records: two pops make room
C10_TwoPopsForLargeValue ==
    \E t \in {"c1", Worker} :
        /\ InWaitLoop(t)
        /\ Len(argV[t]) = 2
        /\ evictions[t] = 2
        /\ HasSpace(diskCur, diskMax, Len(argV[t]))

----------------------------------------------------------------------------
(* One caller stores key 1 and fills the disk with key 2, a second caller    *)
(* deletes key 2, no pop functor.                                            *)

\* the keys the second caller deletes
DeletedKeys == {2}

\* the steps of the storing caller's calls, of the deleting caller's calls, of the worker
StorerStep ==
    \/ DeleteStep("c1") \/ StoreStep("c1")
    \/ DiskWriteStep("c1") \/ DiskWaitStep("c1")

DeleterStep == DeleteStep("c2")

WorkerThreadStep == WorkerStep \/ DiskWriteStep(Worker) \/ DiskWaitStep(Worker)

NextLive ==
    \/ \E v \in {SmallValue, LargeValue} : StartStore("c1", 1, v)
    \/ \E k \in DeletedKeys : StartStore("c1", k, LargeValue)
    \/ \E k \in DeletedKeys : StartDelete("c2", k)
    \/ StorerStep
    \/ DeleterStep
    \/ WorkerThreadStep

\* a call in progress and the worker go on: a step that is possible again and again,
\* such as taking a mutex, is eventually taken
SpecLive ==
    /\ Init /\ [][NextLive]_vars
    /\ SF_vars(StorerStep) /\ SF_vars(DeleterStep) /\ SF_vars(WorkerThreadStep)

\* the value of t's disk-write fits on disk
FitsNow(t) == HasSpace(diskCur, diskMax, Len(argV[t]))

\* t is inside WaitForSpaceOnDisk
InWaitForSpaceOnDisk(t) == InWaitLoop(t) \/ pc[t] = "SD_wait"

\* Get(key) would return value
Readable(key, value) ==
    LET m == Find(memIndex, key)
        d == Find(diskIndex, key)
    IN  IF m # 0 THEN memIndex[m].value = value
        ELSE /\ d # 0 /\ diskIndex[d].state = Completed
             /\ FileExists(key) /\ files[GetFilename(key)] = value

\* C8: with no pop functor, a disk-write waiting for room does not wait for ever while
\* its value fits: it leaves WaitForSpaceOnDisk, or the room is taken again; and when a
\* Store that has waited there, of a key no other caller deletes, finds room, it returns
\* normally with its value readable.
C8_BlockedWriteCompletes ==
    /\ \A t \in {"c1", Worker} :
          (pc[t] = "SD_wait" /\ FitsNow(t)) ~> (~InWaitForSpaceOnDisk(t) \/ ~FitsNow(t))
    /\ [][\A t \in Callers :
            (pc[t] = "SD_woken" /\ pc'[t] = "done" /\ FitsNow(t) /\ argK[t] \notin DeletedKeys)
                => (ret'[t] = Ok /\ Readable(argK[t], argV[t])')]_vars

\* a Store of a key nobody deletes has waited for room on disk, is awake and finds room
C8_WokenWithRoom ==
    /\ pc["c1"] = "SD_woken" /\ op["c1"] = "Store" /\ argK["c1"] \notin DeletedKeys
    /\ FitsNow("c1") /\ running

----------------------------------------------------------------------------------------------------------------------------------------------------
(* One caller stores keys 1 and 2 and deletes key 2, a second one gets key 1, *)
(* a third one deletes key 1; no pop functor.                                *)

NextGet ==
    \/ StartStore("c1", 2, LargeValue)
    \/ \E v \in {SmallValue, LargeValue} : StartStore("c1", 1, v)
    \/ StartDelete("c1", 2)
    \/ StartGet("c2", 1)
    \/ StartDelete("c3", 1)
    \/ DeleteStep("c1") \/ StoreStep("c1")
    \/ GetStep("c2")
    \/ DeleteStep("c3")
    \/ \E t \in {"c1", Worker} : DiskWriteStep(t) \/ DiskWaitStep(t)
    \/ WorkerStep

SpecGet == Init /\ [][NextGet]_vars

\* the state of the disk record Find returns for key, "none" when there is none
RecordState(key) ==
    LET itr == Find(diskIndex, key)
    IN  IF itr = 0 THEN "none" ELSE diskIndex[itr].state

\* t's Get found no memory entry, found the key's disk record Started and waited
GetHasWaited(t) == op[t] = "Get" /\ pc[t] = "G_wait"

\* C11: a Get that did not find its key in memory and waited on the key's Started
\* disk record does not return while the record is Started; when it returns with
\* the record Completed it returns normally with the whole content of the key's
\* file; when it returns with the record Cancelled or gone it fails with
\* no_such_element.
C11_GetWaitsForStartedRecord ==
    [][\A t \in Callers :
        (GetHasWaited(t) /\ pc'[t] = "done") =>
            /\ RecordState(argK[t]) # Started
            /\ RecordState(argK[t]) = Completed =>
                    /\ ret'[t] = Ok
                    /\ retV'[t] = files[GetFilename(argK[t])]
            /\ RecordState(argK[t]) \in {"none", Cancelled} => ret'[t] = NoSuchElement]_vars

----
(* Cancellation of a disk-write that waits for room (specification Spec)     *)

\* the positions of the records of key in the disk index
RecordsOf(key) == { i \in 1..Len(diskIndex) : diskIndex[i].key = key }

\* the threads inside StoreOnDisk for key
WritersOf(key) ==
    { t \in Threads : argK[t] = key /\ pc[t] \in {"SD_start", "SD_wsd", "SD_wait", "SD_woken"} }

\* t waits or has waited for room in WaitForSpaceOnDisk, its record is the only one
\* of its key and has been turned kCancelled
WaitingWriteCancelled(t) ==
    /\ pc[t] \in {"SD_wait", "SD_woken"}
    /\ WritersOf(argK[t]) = {t}
    /\ Cardinality(RecordsOf(argK[t])) = 1
    /\ RecordState(argK[t]) = Cancelled

\* C12: a disk-write whose record was turned Cancelled while it waited for room
\* leaves StoreOnDisk without writing its key's file and without adding to
\* disk_store_.current, also when room has been freed before it wakes, and the
\* worker does not fail.
C12_CancelledWriteWritesNothing ==
    [][\A t \in Threads :
        (WaitingWriteCancelled(t) /\ pc'[t] \notin {"SD_wait", "SD_woken"}) =>
            /\ files' = files
            /\ diskCur' = diskCur
            /\ pc'[t] # "W_failed"]_vars

----------------------------------------------------------------------------
(* A Store of a value larger than memory_store_.max (specification Spec)     *)

\* t's Store returns normally in this step
StoreReturnsOk(t) == op[t] = "Store" /\ pc[t] # "done" /\ pc'[t] = "done" /\ ret'[t] = Ok

\* C13: when a Store of a value larger than memory_store_.max and no larger than
\* disk_store_.max returns normally, no other caller being inside a Store or Delete
\* of the key, the key has a Completed disk record, its file holds the value, and
\* the key has no memory entry.
C13_LargeStoreIsOnDisk ==
    [][\A t \in Callers :
        (/\ StoreReturnsOk(t)
         /\ Len(argV[t]) > memMax /\ Len(argV[t]) <= diskMax
         /\ ~OtherWriter(t, argK[t])) =>
            /\ \E i \in 1..Len(diskIndex') :
                    diskIndex'[i].key = argK[t] /\ diskIndex'[i].state = Completed
            /\ GetFilename(argK[t]) \in DOMAIN files'
            /\ files'[GetFilename(argK[t])] = argV[t]
            /\ Find(memIndex', argK[t]) = 0]_vars

----------------------------------------------------------------------------
(* A Store of a value that fits in memory (specification Spec)               *)

\* the worker has copied key out of memory and is on its way to or in StoreOnDisk
WorkerBusyWith(key) ==
    argK[Worker] = key /\ pc[Worker] \notin {"W_idle", "W_towait", "W_wait", "W_done", "W_failed"}

\* t is inside a Store of a value no larger than memory_store_.max, the key in neither
\* tier and not on its way to disk
SmallStoreOfAbsentKey(t) ==
    /\ op[t] = "Store" /\ InCall(t)
    /\ Len(argV[t]) <= memMax
    /\ Find(memIndex, argK[t]) = 0
    /\ Find(diskIndex, argK[t]) = 0
    /\ ~WorkerBusyWith(argK[t])

\* t locks disk_store_.mutex in this step: DeleteFromDisk's lock_guard, or a
\* unique_lock it keeps
TakesDiskMutex(t) ==
    \/ pc[t] = "D_disk" /\ pc'[t] # "D_disk"
    \/ diskLock # t /\ diskLock' = t

\* C14: the thread of a Store of a value that fits in memory, for a key in neither
\* tier, never locks the disk mutex, and its steps change no disk record and no file.
C14_SmallStoreLeavesDiskAlone ==
    [][\A t \in Callers :
        (SmallStoreOfAbsentKey(t) /\ pc'[t] # pc[t]) =>
            /\ ~TakesDiskMutex(t)
            /\ diskIndex' = diskIndex
            /\ files' = files]_vars

----------------------------------------------------------------------------
(* Construction and resizes by one caller on an empty buffer                 *)

\* CommonErrors::uninitialised
Uninitialised == "uninitialised"

\* The constructor's member initialisers have run with max_memory_usage mm and
\* max_disk_usage dm, Init() has not: no worker yet, worker_ not valid.  writable tells
\* whether kDiskBuffer_ can be created and written.
InitUnconstructed(mm, dm, writable) ==
    /\ memMax = mm /\ memCur = 0 /\ memIndex = << >>
    /\ diskMax = dm /\ diskCur = 0 /\ diskIndex = << >>
    /\ files = [n \in {} |-> NoVal]
    /\ dirOK = writable
    /\ popFunctor = FALSE
    /\ kShouldRemoveRoot = TRUE
    /\ running = TRUE
    /\ futValid = FALSE /\ workerErr = Ok
    /\ memLock = NoThread /\ diskLock = NoThread
    /\ blocked = {}
    /\ pc = [t \in Threads |-> IF t = Worker THEN "W_unborn"
                                ELSE IF t = "c1" THEN "C_init" ELSE "idle"]
    /\ op = [t \in Callers |-> IF t = "c1" THEN "Construct" ELSE "none"]
    /\ argK = [t \in Threads |-> NoKey]
    /\ argV = [t \in Threads |-> NoVal]
    /\ argN = [t \in Callers |-> 0]
    /\ ret = [t \in Callers |-> Pending]
    /\ retV = [t \in Callers |-> NoVal]
    /\ live = [k \in Keys |-> NoVal]
    /\ gexp = [t \in Callers |-> NoVal]
    /\ pprev = [t \in Callers |-> NoVal]
    /\ chain = [t \in Callers |-> NoVal]
    /\ dlive = [t \in Callers |-> FALSE]
    /\ began = [t \in Callers |-> {}]
    /\ celSeen = FALSE
    /\ lowered = FALSE
    /\ diskGhost = << >>
    /\ lastPop = NoPop
    /\ evictions = [t \in Threads |-> 0]

\* Init(): the comparison of the maxes, the directory, the test file, std::async
Construct(t) ==
    /\ pc[t] = "C_init"
    /\ IF MemoryExceedsDisk(memMax, diskMax)
       THEN /\ Return(t, InvalidParameter, NoVal)
            /\ UNCHANGED futValid
       ELSE IF ~dirOK
       THEN /\ Return(t, Uninitialised, NoVal)
            /\ UNCHANGED futValid
       ELSE /\ pc' = [pc EXCEPT ![t] = "done", ![Worker] = "W_idle"]
            /\ ret' = [ret EXCEPT ![t] = Ok]
            /\ futValid' = TRUE
            /\ UNCHANGED << retV, live >>
    /\ UNCHANGED << memTier, diskTier, maxes, env, running, workerErr, locks, blocked, call,
                    history, celSeen, hook >>

\* Init() has launched the worker
Constructed == pc[Worker] # "W_unborn"

\* the worker's steps while memory holds nothing to copy
WorkerIdleStep == CopyQueueToDisk \/ WorkerBlock

InitCtor == \E mm \in 0..MaxResize, dm \in 0..MaxResize, writable \in BOOLEAN :
                InitUnconstructed(mm, dm, writable)

NextCtor ==
    \/ Construct("c1")
    \/ Constructed /\ \E n \in 0..MaxResize : StartSetMaxMemoryUsage("c1", n)
    \/ Constructed /\ \E n \in 0..MaxResize : StartSetMaxDiskUsage("c1", n)
    \/ ResizeStep("c1")
    \/ WorkerIdleStep

SpecCtor == InitCtor /\ [][NextCtor]_vars

\* t's call returns or throws in this step
Returns(t) == pc[t] # "done" /\ pc'[t] = "done"

----------------------------------------------------------------------------
(* ~DataBuffer                                                               *)

\* The destructor is entered by thread t while no public call is in progress; what
\* the worker is doing at that moment is kept in began[t].
StartDestroy(t) ==
    /\ \A u \in Callers : ~InCall(u) /\ op[u] # "Destroy"
    /\ Constructed
    /\ pc' = [pc EXCEPT ![t] = "X_lock"]
    /\ op' = [op EXCEPT ![t] = "Destroy"]
    /\ ret' = [ret EXCEPT ![t] = Pending]
    /\ retV' = [retV EXCEPT ![t] = NoVal]
    /\ began' = [began EXCEPT ![t] = {pc[Worker]}]
    /\ UNCHANGED << memTier, diskTier, maxes, env, running, future, locks, blocked, argK,
                    argV, argN, live, gexp, pprev, chain, dlive, celSeen, hook >>

\* std::lock(memory_store_.mutex, disk_store_.mutex); running_ = false; both released
DestroyStop(t) ==
    /\ pc[t] = "X_lock"
    /\ memLock = NoThread /\ diskLock = NoThread
    /\ running' = FALSE
    /\ pc' = [pc EXCEPT ![t] = "X_loop"]
    /\ UNCHANGED << memTier, diskTier, maxes, env, future, locks, blocked, call, result,
                    live, history, celSeen, hook >>

\* one turn of the loop while worker_ is valid and not ready: notify_all on both
\* condition variables, yield
DestroyNotify(t) ==
    /\ pc[t] = "X_loop"
    /\ futValid /\ ~WorkerReady
    /\ blocked' = NotifyMem(NotifyDisk(blocked))
    /\ UNCHANGED << memTier, diskTier, maxes, env, running, future, locks, pc, call, result,
                    live, history, celSeen, hook >>

\* a destructor that removes the directory whoever made it
RemovesRootAlways == TRUE

\* if (kShouldRemoveRoot_)
RemovesRoot == kShouldRemoveRoot

\* the loop is left: worker_.get() if valid, its exception caught; remove_all of the
\* directory when the buffer created it (kShouldRemoveRoot_); the destructor returns
DestroyJoin(t) ==
    /\ pc[t] = "X_loop"
    /\ ~(futValid /\ ~WorkerReady)
    /\ futValid' = FALSE
    /\ IF RemovesRoot
       THEN dirOK' = FALSE /\ files' = [n \in {} |-> NoVal]
       ELSE UNCHANGED << dirOK, files >>
    /\ Return(t, Ok, NoVal)
    /\ UNCHANGED << memTier, diskCur, diskIndex, diskGhost, maxes, popFunctor,
                    kShouldRemoveRoot, running,
                    workerErr, locks, blocked, call, history, celSeen, hook >>

\* the steps of the destructor
DestroyStep(t) ==
    \/ DestroyStop(t)
    \/ DestroyNotify(t)
    \/ DestroyJoin(t)

----------------------------------------------------------------------------
(* One caller stores keys 1 and 2, with or without a pop functor; the        *)
(* directory may be removed from outside; a second thread destroys the       *)
(* buffer once no call is in progress.                                       *)

\* the destructor has been entered
Destroying == \E t \in Callers : op[t] = "Destroy"

InitEither == \E functor \in BOOLEAN : InitWith(MemoryMax, DiskMax, functor)

\* the steps of the worker's thread, with and without a pop functor
WorkerAnyStep ==
    \/ WorkerStep
    \/ DiskWriteStep(Worker) \/ DiskWaitStep(Worker) \/ StoreOnDiskPop(Worker)

\* the steps of the caller's thread
CallerAnyStep ==
    \/ DeleteStep("c1") \/ StoreStep("c1") \/ MemoryWaitStep("c1")
    \/ DiskWriteStep("c1") \/ DiskWaitStep("c1") \/ StoreOnDiskPop("c1")

\* the disk records a new Store can still lead to: one for itself, one for each memory
\* entry not yet copied, one for the copy the worker has begun
RecordsToCome ==
    1 + Cardinality({ i \in 1..Len(memIndex) : memIndex[i].also_on_disk = NotStarted })
      + (IF pc[Worker] \in {"W_lockdisk", "SD_start"} THEN 1 ELSE 0)

\* bound of the model: a Store begins only if the index of the disk tier cannot
\* outgrow MaxDiskLen
IndexStaysInBound == Len(diskIndex) + RecordsToCome <= MaxDiskLen

NextDestroy ==
    \/ /\ ~Destroying /\ IndexStaysInBound
       /\ \E k \in {1, 2}, v \in {SmallValue, LargeValue} : StartStore("c1", k, v)
    \/ CallerAnyStep
    \/ WorkerAnyStep
    \/ ~Destroying /\ RemoveDirectory
    \/ StartDestroy("c2")
    \/ DestroyStep("c2")

\* the destroying thread and the worker's thread are scheduled: a step of one of them
\* that stays possible is eventually taken
SpecDestroy ==
    /\ InitEither /\ [][NextDestroy]_vars
    /\ WF_vars(DestroyStep("c2")) /\ WF_vars(WorkerAnyStep)

\* C16: once the destructor has been entered with no public call in progress, the
\* worker ends and the destructor returns, whatever the worker was doing.
C16_DestructorReturns ==
    \A t \in Callers :
        (op[t] = "Destroy" /\ pc[t] = "X_lock") ~> (pc[t] = "done" /\ WorkerReady)

\* the destructor has returned; when it was entered the worker was asleep in
\* WaitForSpaceOnDisk on a full disk without a pop functor
C16_ReturnedAfterDiskWait ==
    /\ op["c2"] = "Destroy" /\ pc["c2"] = "done"
    /\ began["c2"] = {"SD_wait"}
    /\ ~popFunctor
    /\ WorkerReady

----------------------------------------------------------------------------
(* The two tiers                                                             *)

\* no public call is in progress
NoCallInProgress == \A t \in Callers : ~InCall(t)

\* key has an element in memory_store_.index / in disk_store_.index
InMemory(key) == Find(memIndex, key) # 0
OnDisk(key) == Find(diskIndex, key) # 0

\* C17: while no public call is in progress, no key is both in the index of the
\* memory tier and in the index of the disk tier.
C17_KeyInOneTier ==
    NoCallInProgress => \A key \in Keys : ~(InMemory(key) /\ OnDisk(key))

\* the elements of memory_store_.index with the key
EntriesOf(key) == { i \in 1..Len(memIndex) : memIndex[i].key = key }

\* C18: in every reachable state the index of the memory tier and the index of the
\* disk tier each hold at most one element per key.
C18_OneEntryPerKey ==
    \A key \in Keys :
        /\ Cardinality(EntriesOf(key)) <= 1
        /\ Cardinality(RecordsOf(key)) <= 1

----------------------------------------------------------------------------
(* The capacity trackers                                                     *)

RECURSIVE SizeOfValues(_)
\* the sum of value.string().size() over the elements of an index of the memory tier
SizeOfValues(index) ==
    IF index = << >> THEN 0
    ELSE Len(Head(index).value) + SizeOfValues(Tail(index))

\* C19: whenever memory_store_.mutex is free, memory_store_.current is the sum of the
\* sizes of the values in memory_store_.index.
C19_MemoryCurrentIsSum ==
    memLock = NoThread => memCur = SizeOfValues(memIndex)

\* key 1, stored through memory and copied to disk, has been evicted from memory to
\* make room for key 2, which is now the only entry
C19_AfterEviction ==
    /\ memLock = NoThread
    /\ ~InMemory(1) /\ InMemory(2)
    /\ RecordState(1) = Completed
    /\ FileExists(1) /\ Len(files[GetFilename(1)]) = 1
    /\ memCur = 1

\* the size of the value written for the record at position i: the size of its file
SizeOnDisk(i) ==
    IF FileExists(diskIndex[i].key) THEN Len(files[GetFilename(diskIndex[i].key)]) ELSE 0

RECURSIVE SizeOfCompleted(_)
\* the sum of the value sizes over the kCompleted records at positions 1..n of the
\* index of the disk tier
SizeOfCompleted(n) ==
    IF n = 0 THEN 0
    ELSE (IF diskIndex[n].state = Completed THEN SizeOnDisk(n) ELSE 0) + SizeOfCompleted(n - 1)

\* thread t's disk-write turns a kStarted record of its key kCompleted in this step
CompletesOwnRecord(t) ==
    \E i \in 1..Len(diskIndex) :
        /\ diskIndex[i].key = argK[t] /\ diskIndex[i].state = Started
        /\ Len(diskIndex') = Len(diskIndex) /\ diskIndex'[i].state = Completed

\* C20: whenever disk_store_.mutex is free, disk_store_.current is the sum of the value
\* sizes of the kCompleted records, and a disk-write adds to disk_store_.current only
\* in the step that turns its own record kCompleted.
C20_DiskCurrentIsSumOfCompleted ==
    [][/\ diskLock' = NoThread => diskCur' = SizeOfCompleted(Len(diskIndex))'
       /\ \A t \in Threads :
             (pc[t] \in {"SD_wsd", "SD_woken"} /\ pc'[t] # pc[t] /\ diskCur' > diskCur)
                 => CompletesOwnRecord(t)]_vars

----------------------------------------------------------------------------
(* The files of the disk tier                                                *)

\* key has a kCompleted element in disk_store_.index
HasCompletedRecord(key) ==
    \E i \in 1..Len(diskIndex) : diskIndex[i].key = key /\ diskIndex[i].state = Completed

\* C21: whenever disk_store_.mutex is free, every file in kDiskBuffer_ is the file of
\* a key with a kCompleted record, and every kCompleted record has its file.
C21_FilesMatchCompletedRecords ==
    diskLock = NoThread =>
        /\ \A name \in DOMAIN files :
              \E key \in Keys : GetFilename(key) = name /\ HasCompletedRecord(key)
        /\ \A key \in Keys : HasCompletedRecord(key) => FileExists(key)

----------------------------------------------------------------------------
(* One caller fills both tiers: disk max / memory max + 1 distinct keys,     *)
(* each with a value of memory max bytes, a Get after every Store; no pop    *)
(* functor.                                                                  *)

\* the keys in the order they are stored
KeySequence == << 1, 2, 171 >>

\* the maxes of the filled buffers: the disk max is the memory max or twice it
InitFill ==
    \E mm \in 1..DiskMax, dm \in 1..(2 * DiskMax) :
        /\ dm \in {mm, 2 * mm}
        /\ InitWith(mm, dm, FALSE)

\* the number of Stores: disk_usage / memory_usage + 1
Puts == (diskMax \div memMax) + 1

\* the value of the i-th Store: memory max bytes, different for each key
ValueFor(i) == [j \in 1..memMax |-> i]

\* the position of key in KeySequence
PositionOf(key) == CHOOSE i \in 1..Len(KeySequence) : KeySequence[i] = key

\* the caller's loop: Store(key, value), then Get(key), then the next key
FillNext(t) ==
    \/ /\ op[t] = "none"
       /\ StartStore(t, KeySequence[1], ValueFor(1))
    \/ /\ op[t] = "Store" /\ pc[t] = "done" /\ ret[t] = Ok
       /\ StartGet(t, argK[t])
    \/ /\ op[t] = "Get" /\ pc[t] = "done" /\ ret[t] = Ok
       /\ PositionOf(argK[t]) < Puts
       /\ StartStore(t, KeySequence[PositionOf(argK[t]) + 1], ValueFor(PositionOf(argK[t]) + 1))

\* the steps of the caller's Store and Get when every value fits in memory
FillCallerStep(t) ==
    \/ DeleteStep(t)
    \/ StoreCheck(t) \/ StoreInMemory(t) \/ WaitForSpaceInMemory(t)
    \/ MemoryWaitStep(t)
    \/ GetCheck(t) \/ GetFromMemory(t)

\* the steps of the worker when nothing is deleted
FillWorkerStep ==
    \/ WorkerStep
    \/ DiskWriteStep(Worker)
    \/ StoreOnDiskWait(Worker)

NextFill ==
    \/ FillNext("c1")
    \/ FillCallerStep("c1")
    \/ FillWorkerStep

\* the caller's thread and the worker's thread are scheduled: a step of one of them
\* that stays possible is eventually taken
SpecFill ==
    /\ InitFill /\ [][NextFill]_vars
    /\ WF_vars(FillCallerStep("c1")) /\ WF_vars(FillWorkerStep)

\* C22: with no pop functor and a disk max that is a multiple of the memory max, each
\* of the disk max / memory max + 1 Stores of a new key with a value of memory max
\* bytes returns normally, and the Get that follows it returns the value stored.
C22_FillsBothTiers ==
    /\ \A key \in Keys :
          (op["c1"] = "Store" /\ argK["c1"] = key /\ InCall("c1"))
              ~> (op["c1"] = "Store" /\ argK["c1"] = key /\ pc["c1"] = "done" /\ ret["c1"] = Ok)
    /\ \A key \in Keys :
          (op["c1"] = "Get" /\ argK["c1"] = key /\ InCall("c1"))
              ~> (/\ op["c1"] = "Get" /\ argK["c1"] = key /\ pc["c1"] = "done"
                  /\ ret["c1"] = Ok /\ retV["c1"] = ValueFor(PositionOf(key)))

\* three Stores and three Gets have returned on a buffer with memory max 1 and disk
\* max 2, which now holds 3 bytes
C22_ThreeBytesHeld ==
    /\ memMax = 1 /\ diskMax = 2
    /\ op["c1"] = "Get" /\ argK["c1"] = KeySequence[3] /\ pc["c1"] = "done"
    /\ ret["c1"] = Ok
    /\ memCur = 1 /\ diskCur = 2

----------------------------------------------------------------------------
(* Destruction of a buffer made by either constructor                        *)

\* the constructor with a directory argument: the caller's directory
InitWithDirectory(mm, dm, pop) == InitBuffer(mm, dm, pop, FALSE)

InitRoot ==
    \E functor \in BOOLEAN :
        \/ InitWith(MemoryMax, DiskMax, functor)
        \/ InitWithDirectory(MemoryMax, DiskMax, functor)

SpecRoot == InitRoot /\ [][NextDestroy]_vars

----------------------------------------------------------------------------
(* MemoryBuffer, the single-tier store.  In this section memIndex is         *)
(* memory_buffer_, memMax its capacity, the constructor's max_memory_usage   *)
(* cast to uint32_t, and memLock is mutex_, which every call holds from its  *)
(* first statement to its last: a call is one step.  live[key] is the value  *)
(* of the last Store(key, .), Gone after a Delete(key) that found the key.   *)

\* the bound of the model on max_memory_usage
MaxCapacity == 2

\* static_cast<uint32_t>(max_memory_usage.data): the low 32 bits, which are the whole
\* value for every max_memory_usage the model draws (all are below 2^31)
CapacityOf(max_memory_usage) == max_memory_usage

\* a push_back that grows the buffer beyond its capacity
PushBackUnbounded(buffer, capacity, element) == Append(buffer, element)

\* memory_buffer_.push_back on the insertion-ordered bounded store: a full store drops
\* its oldest element, a store of capacity 0 takes nothing
PushBack(buffer, capacity, element) ==
    IF capacity = 0 THEN buffer
    ELSE IF Len(buffer) >= capacity THEN Append(Tail(buffer), element)
    ELSE Append(buffer, element)

\* a Store that does not look for the key
WithoutNothing(buffer, key) == buffer

\* Store: if the key is found its element is erased
WithoutKey(buffer, key) ==
    IF Find(buffer, key) # 0 THEN Erase(buffer, Find(buffer, key)) ELSE buffer

\* thread t calls Store, Get or Delete of the MemoryBuffer and waits for mutex_
MemoryBufferCall(t, name, key, value) ==
    /\ ~InCall(t)
    /\ pc' = [pc EXCEPT ![t] = "M_lock"]
    /\ op' = [op EXCEPT ![t] = name]
    /\ argK' = [argK EXCEPT ![t] = key]
    /\ argV' = [argV EXCEPT ![t] = value]
    /\ ret' = [ret EXCEPT ![t] = Pending]
    /\ retV' = [retV EXCEPT ![t] = NoVal]
    /\ UNCHANGED << memTier, diskTier, maxes, env, running, future, locks, blocked, argN,
                    live, history, celSeen, hook >>

\* thread t's call ends with outcome r and value v
MemoryBufferReturn(t, r, v) ==
    /\ pc' = [pc EXCEPT ![t] = "done"]
    /\ ret' = [ret EXCEPT ![t] = r]
    /\ retV' = [retV EXCEPT ![t] = v]

MemoryBufferStore(t) ==
    /\ pc[t] = "M_lock" /\ op[t] = "Store"
    /\ memLock = NoThread
    /\ memIndex' = PushBack(WithoutKey(memIndex, argK[t]), memMax,
                            [key |-> argK[t], value |-> argV[t]])
    /\ live' = [live EXCEPT ![argK[t]] = argV[t]]
    /\ MemoryBufferReturn(t, Ok, NoVal)
    /\ UNCHANGED << memCur, diskTier, maxes, env, running, future, locks, blocked, call,
                    history, celSeen, hook >>

MemoryBufferGet(t) ==
    /\ pc[t] = "M_lock" /\ op[t] = "Get"
    /\ memLock = NoThread
    /\ LET itr == Find(memIndex, argK[t])
       IN  IF itr # 0
           THEN MemoryBufferReturn(t, Ok, memIndex[itr].value)
           ELSE MemoryBufferReturn(t, NoSuchElement, NoVal)
    /\ UNCHANGED << memTier, diskTier, maxes, env, running, future, locks, blocked, call,
                    live, history, celSeen, hook >>

MemoryBufferDelete(t) ==
    /\ pc[t] = "M_lock" /\ op[t] = "Delete"
    /\ memLock = NoThread
    /\ LET itr == Find(memIndex, argK[t])
       IN  IF itr # 0
           THEN /\ memIndex' = Erase(memIndex, itr)
                /\ live' = [live EXCEPT ![argK[t]] = Gone]
                /\ MemoryBufferReturn(t, Ok, NoVal)
           ELSE /\ MemoryBufferReturn(t, NoSuchElement, NoVal)
                /\ UNCHANGED << memIndex, live >>
    /\ UNCHANGED << memCur, diskTier, maxes, env, running, future, locks, blocked, call,
                    history, celSeen, hook >>

\* MemoryBuffer(max_memory_usage): the buffer is empty
InitMemoryBuffer ==
    \E max_memory_usage \in 0..MaxCapacity :
        InitWith(CapacityOf(max_memory_usage), DiskMax, FALSE)

\* the threads calling the MemoryBuffer
MemoryBufferCallers == {"c1", "c2"}

NextMemoryBuffer ==
    \E t \in MemoryBufferCallers :
        \/ \E key \in Keys, value \in {SmallValue, << 2 >>} :
              MemoryBufferCall(t, "Store", key, value)
        \/ \E key \in Keys : MemoryBufferCall(t, "Get", key, NoVal)
        \/ \E key \in Keys : MemoryBufferCall(t, "Delete", key, NoVal)
        \/ MemoryBufferStore(t)
        \/ MemoryBufferGet(t)
        \/ MemoryBufferDelete(t)

SpecMemoryBuffer == InitMemoryBuffer /\ [][NextMemoryBuffer]_vars

\* the store holds at most one element per key
OneElementPerKey == \A key \in Keys : Cardinality(EntriesOf(key)) <= 1

\* a Get or Delete of a key that is not in the store fails with no_such_element and
\* leaves the store as it is
AbsentKeyFails(t) ==
    (op[t] \in {"Get", "Delete"} /\ Find(memIndex, argK[t]) = 0)
        => (ret'[t] = NoSuchElement /\ memIndex' = memIndex)

----------------------------------------------------------------------------
(* The two mutexes. One caller stores keys 1 and 2, with a value that fits  *)
(* in memory or one larger than the disk max (the fatal stop); a second     *)
(* caller stores a value larger than the memory max; no pop functor.        *)

NextLocks ==
    \/ \E k \in {1, 2}, v \in {SmallValue, HugeValue} : StartStore("c1", k, v)
    \/ StartStore("c2", 171, LargeValue)
    \/ \E t \in {"c1", "c2"} : DeleteStep(t) \/ StoreStep(t)
    \/ MemoryWaitStep("c1")
    \/ \E t \in {"c1", "c2", Worker} : DiskWriteStep(t) \/ DiskWaitStep(t)
    \/ WorkerStep

SpecLocks == Init /\ [][NextLocks]_vars

\* t is at a statement that locks memory_store_.mutex, or has been woken from a wait on
\* memory_store_.cond_var and must take the mutex again
RequestsMemory(t) ==
    \/ pc[t] \in {"S_mem", "D_mem", "G_mem", "M_check", "W_idle", "W_relock"}
    \/ pc[t] \in {"S_wait", "W_wait"} /\ t \notin blocked

\* t is at a statement that locks disk_store_.mutex, or has been woken from a wait on
\* disk_store_.cond_var and must take the mutex again
RequestsDisk(t) ==
    \/ pc[t] \in {"S_lockdisk", "W_lockdisk", "D_disk", "G_disk", "K_check"}
    \/ pc[t] \in {"SD_wait", "G_wait"} /\ t \notin blocked

\* t1 holds the memory mutex and requests the disk mutex, which t2 holds while it
\* requests the memory mutex
LockCycle(t1, t2) ==
    /\ memLock = t1 /\ RequestsDisk(t1)
    /\ diskLock = t2 /\ RequestsMemory(t2)

\* C25: no two threads, callers or the worker, are each blocked on a tier mutex that
\* the other holds; with two mutexes every set of threads blocked on each other
\* contains such a pair.
C25_NoLockCycle == \A t1, t2 \in Threads : ~LockCycle(t1, t2)

\* C26: no thread requests the memory mutex while it holds the disk mutex, on any
\* path out of the disk-write, the return taken when running_ is false included.
C26_MemoryBeforeDisk == \A t \in Threads : ~(diskLock = t /\ RequestsMemory(t))

----------------------------------------------------------------------------
(* Completed memory entries *)

\* the disk tier holds value under key: a kCompleted record and its file
HeldOnDisk(key, value) ==
    /\ HasCompletedRecord(key)
    /\ FileExists(key) /\ files[GetFilename(key)] = value

\* C27: every memory entry in state kCompleted has a kCompleted record on disk whose
\* file holds the entry's value, also when its key is deleted and stored again while
\* the worker copies the key's old value.
C27_CompletedEntryIsOnDisk ==
    \A i \in 1..Len(memIndex) :
        memIndex[i].also_on_disk = Completed
            => HeldOnDisk(memIndex[i].key, memIndex[i].value)

----------------------------------------------------------------------------
(* A fatal stop while other threads wait. One caller stores keys 1 and 2    *)
(* with values larger than the memory max, a second one gets key 1, a third *)
(* one stores a value larger than the disk max once one of the two is in a  *)
(* wait; no pop functor.                                                    *)

\* a caller is in the wait for room in memory, in the wait for room on disk or in
\* Get's wait on a kStarted record
SomeoneWaits == \E t \in Callers : pc[t] \in {"S_wait", "SD_wait", "G_wait"}

\* the steps of a thread that stores a value larger than the memory max
LargePutStep(t) ==
    \/ DeleteStep(t)
    \/ StoreCheck(t) \/ StoreInMemory(t) \/ StoreLockDisk(t)
    \/ DiskWriteStep(t)
    \/ StoreOnDiskWait(t) \/ StoreOnDiskWake(t)

\* the steps of the worker while memory_store_.index is empty
WorkerWaitStep == CopyQueueToDisk \/ WorkerBlock

NextStop ==
    \/ \E k \in {1, 2} : StartStore("c1", k, LargeValue)
    \/ StartGet("c2", 1)
    \/ SomeoneWaits /\ StartStore("c3", 171, HugeValue)
    \/ LargePutStep("c1")
    \/ GetStep("c2")
    \/ LargePutStep("c3")
    \/ WorkerWaitStep

\* every thread is scheduled: a step of a thread that is possible again and again,
\* such as taking a mutex, is eventually taken
SpecStop ==
    /\ Init /\ [][NextStop]_vars
    /\ SF_vars(LargePutStep("c1")) /\ SF_vars(GetStep("c2")) /\ SF_vars(LargePutStep("c3"))
    /\ SF_vars(WorkerWaitStep)

\* t was asleep in the wait for room in memory, in the wait for room on disk or in
\* Get's wait on a kStarted record, and has been notified with running_ false
WokenAfterStop(t) ==
    /\ ~running
    /\ pc[t] \in {"S_wait", "SD_wait", "G_wait"}
    /\ t \notin blocked

\* C28: a caller woken from one of the three waits after running_ became false
\* eventually returns from its call.
C28_WaitersReturnAfterStop ==
    \A t \in Callers : WokenAfterStop(t) ~> pc[t] = "done"

----------------------------------------------------------------------------
(* A fatal stop while a Store is on its way into memory. One caller stores  *)
(* keys 1 and 2 with values that fit in memory, a second one stores a value *)
(* larger than the disk max; the directory may be removed from outside; no  *)
(* pop functor.                                                             *)

\* the steps of a thread that stores a value that fits in memory
SmallPutStep(t) ==
    \/ DeleteStep(t) \/ StoreStep(t) \/ MemoryWaitStep(t) \/ StoreJoin(t)

\* the steps of a thread that stores a value larger than the disk max
HugePutStep(t) ==
    \/ DeleteStep(t)
    \/ StoreCheck(t) \/ StoreInMemory(t) \/ StoreLockDisk(t)
    \/ StoreOnDisk(t)

NextJoin ==
    \/ \E k \in {1, 2} : StartStore("c1", k, SmallValue)
    \/ StartStore("c2", 171, HugeValue)
    \/ SmallPutStep("c1")
    \/ HugePutStep("c2")
    \/ WorkerStep \/ DiskWriteStep(Worker)
    \/ StoreOnDiskWait(Worker) \/ StoreOnDiskWake(Worker)
    \/ RemoveDirectory

SpecJoin == Init /\ [][NextJoin]_vars

\* t's Store has found running_ false after WaitForSpaceInMemory
FoundStopped(t) == op[t] = "Store" /\ pc[t] = "S_join"

\* key has a memory entry with value
InMemoryWith(key, value) ==
    \E i \in 1..Len(memIndex) : memIndex[i].key = key /\ memIndex[i].value = value

\* C29: a Store that finds running_ false in or after the wait for room in memory
\* does not return normally and inserts nothing: it throws the worker's error if
\* there is one and filesystem_io_error otherwise; so a Store of a value that fits
\* in memory that returns normally has inserted its entry.
C29_StoppedStoreThrows ==
    [][\A t \in Callers :
        /\ (FoundStopped(t) /\ pc'[t] = "done") =>
              /\ ret'[t] = (IF pc[Worker] = "W_failed" THEN workerErr ELSE FilesystemIoError)
              /\ memIndex' = memIndex
        /\ (StoreReturnsOk(t) /\ Len(argV[t]) <= memMax) =>
              InMemoryWith(argK[t], argV[t])']_vars

----------------------------------------------------------------------------
(* The migration state of memory entries *)

\* the step neither inserts nor erases a memory entry: each entry of after is the
\* entry of before at the same place
SameEntries(before, after) ==
    /\ Len(after) = Len(before)
    /\ \A i \in 1..Len(before) :
          after[i].key = before[i].key /\ after[i].value = before[i].value

\* a step of also_on_disk made by CopyQueueToDisk on the entry it is copying
MigrationStep(from, to) ==
    \/ from = NotStarted /\ to = Started
    \/ from = Started /\ to = Completed

\* C30: the also_on_disk of a memory entry changes only from kNotStarted to kStarted
\* and from kStarted to kCompleted: never from kNotStarted to kCompleted, never
\* backwards, so an entry is marked kCompleted only after the worker marked that
\* same entry kStarted.
C30_MigrationStateSteps ==
    [][SameEntries(memIndex, memIndex') =>
          \A i \in 1..Len(memIndex) :
              \/ memIndex'[i].also_on_disk = memIndex[i].also_on_disk
              \/ MigrationStep(memIndex[i].also_on_disk, memIndex'[i].also_on_disk)]_vars

----------------------------------------------------------------------------
(* The memory max is lowered while a Store waits for room. One caller      *)
(* stores keys 1 and 2 with values that fit in memory, a second one sets    *)
(* the memory max to at most its first value; no pop functor.               *)

NextLower ==
    \/ \E k \in {1, 2} : StartStore("c1", k, SmallValue)
    \/ \E n \in 0..MemoryMax : StartSetMaxMemoryUsage("c2", n)
    \/ DeleteStep("c1") \/ StoreStep("c1") \/ MemoryWaitStep("c1")
    \/ SetMaxMemoryUsageCheck("c2") \/ SetMaxMemoryUsage("c2")
    \/ WorkerStep \/ DiskWriteStep(Worker)

SpecLower == Init /\ [][NextLower]_vars

\* t is about to evaluate HasSpace(memory_store_, required_space) in
\* WaitForSpaceInMemory, with the memory mutex held
EvaluatesHasSpaceInMemory(t) == pc[t] = "S_wsm" /\ memLock = t

\* t is about to evaluate HasSpace(disk_store_, required_space) in
\* WaitForSpaceOnDisk, with the disk mutex held
EvaluatesHasSpaceOnDisk(t) == InWaitLoop(t) /\ diskLock = t

\* C31: whenever HasSpace(store, required_space) is evaluated the store's max is at
\* least required_space, so store.max - required_space does not wrap; also for a
\* Store or disk-write that slept waiting for room while a max was lowered.
C31_HasSpaceDoesNotWrap ==
    \A t \in Threads :
        /\ EvaluatesHasSpaceInMemory(t) => memMax >= Len(argV[t])
        /\ EvaluatesHasSpaceOnDisk(t) => diskMax >= Len(argV[t])

----------------------------------------------------------------------------
(* Cancelled records (specification Spec) *)

\* t is inside StoreOnDisk
InStoreOnDisk(t) == pc[t] \in {"SD_start", "SD_wsd", "SD_wait", "SD_woken"}

\* C32: a record set kCancelled is removed by the disk-write it belongs to or by a
\* Delete that sees it, so once every disk-write in progress has returned the disk
\* index holds no kCancelled record.
C32_NoCancelledRecordLeft ==
    (\A t \in Threads : ~InStoreOnDisk(t))
        => \A i \in 1..Len(diskIndex) : diskIndex[i].state # Cancelled

----------------------------------------------------------------------------
(* Get and Delete of keys that are not in memory. One caller stores keys 1  *)
(* and 2 with values larger than the memory max, so that the memory index   *)
(* stays empty; a second one gets and deletes key 1; no pop functor.        *)

NextAbsent ==
    \/ \E k \in {1, 2} : StartStore("c1", k, LargeValue)
    \/ StartGet("c2", 1)
    \/ StartDelete("c2", 1)
    \/ LargePutStep("c1") \/ StoreOnDiskCancelled("c1")
    \/ GetStep("c2")
    \/ DeleteStep("c2")
    \/ WorkerWaitStep

SpecAbsent == Init /\ [][NextAbsent]_vars

\* t's Get or Delete looks at the disk index in this step and returns, its key having
\* no memory entry and no disk record, or a kCancelled one
ReturnsForAbsentKey(t) ==
    /\ op[t] \in {"Get", "Delete"}
    /\ pc[t] \in {"G_disk", "G_wait", "D_disk"} /\ pc'[t] = "done"
    /\ Find(memIndex, argK[t]) = 0
    /\ RecordState(argK[t]) \in {"none", Cancelled}

\* C33: a Get or Delete of a key that has no memory entry and whose disk record is
\* missing or kCancelled fails with no_such_element.  (Under SpecAbsent the memory
\* index is empty in every state, so the key had no memory entry when the call began.)
C33_AbsentKeyIsNoSuchElement ==
    [][\A t \in Callers : ReturnsForAbsentKey(t) => ret'[t] = NoSuchElement]_vars

----------------------------------------------------------------------------
(* Concurrent Stores of one key with a pop functor and no I/O failure. The  *)
(* memory max equals the disk max, so that two one-byte values fit in       *)
(* memory; two callers store key 1, the first one also stores key 2 with a  *)
(* value that fills the memory.                                             *)

InitAsync == InitWith(DiskMax, DiskMax, TRUE)

\* the steps of a Store whose value is no larger than memory_store_.max
MemoryPutStep(t) ==
    \/ DeleteStep(t)
    \/ StoreCheck(t) \/ StoreInMemory(t) \/ WaitForSpaceInMemory(t)
    \/ MemoryWaitStep(t)

\* the steps of the worker's thread with a pop functor
WorkerPopStep == WorkerStep \/ DiskWriteStep(Worker) \/ StoreOnDiskPop(Worker)

NextAsync ==
    \/ StartStore("c1", 1, SmallValue)
    \/ StartStore("c1", 2, LargeValue)
    \/ StartStore("c2", 1, SmallValue)
    \/ MemoryPutStep("c1")
    \/ MemoryPutStep("c2")
    \/ WorkerPopStep

\* every thread is scheduled: a step of a thread that is possible again and again,
\* such as taking a mutex, is eventually taken
SpecAsync ==
    /\ InitAsync /\ [][NextAsync]_vars
    /\ SF_vars(MemoryPutStep("c1")) /\ SF_vars(MemoryPutStep("c2"))
    /\ SF_vars(WorkerPopStep)

\* key has a memory entry that is not kCompleted
BeingMigrated(key) ==
    \E i \in 1..Len(memIndex) :
        memIndex[i].key = key /\ memIndex[i].also_on_disk # Completed

\* C34: with a pop functor and no I/O failure, every Store of a value no larger than
\* disk_store_.max returns normally, and every memory entry becomes kCompleted or is
\* removed, whatever the interleaving of the callers, Stores of one key included.
C34_EveryStoreReturns ==
    /\ \A t \in Callers :
          (op[t] = "Store" /\ InCall(t) /\ Len(argV[t]) <= diskMax)
              ~> (pc[t] = "done" /\ ret[t] = Ok)
    /\ \A key \in Keys : BeingMigrated(key) ~> ~BeingMigrated(key)

----------------------------------------------------------------------------
(* The front record seen by the pop branch of WaitForSpaceOnDisk.            *)

\* t is in the loop of WaitForSpaceOnDisk, past both returns with cancelled = true, and
\* kPopFunctor_ is set: the next statement is itr = FindOldestOnDisk() and the assert
InPopBranch(t) ==
    /\ InWaitLoop(t)
    /\ diskLock = t
    /\ MustWaitForSpaceOnDisk(t)
    /\ OwnRecordPending(t)
    /\ popFunctor

\* C35: whenever the pop branch of WaitForSpaceOnDisk looks at the front record of the
\* disk index, that record is not kStarted (the assert of line 392 holds).
C35_FrontIsNotStarted ==
    \A t \in Threads : InPopBranch(t) => diskIndex[FindOldestOnDisk].state # Started

\* Two callers and a pop functor: both store key 1 in memory, and one of them stores
\* keys 2 and 171 with values that go straight to disk.
NextFront ==
    \/ StartStore("c1", 1, SmallValue)
    \/ StartStore("c1", 2, LargeValue)
    \/ StartStore("c1", 171, LargeValue)
    \/ StartStore("c2", 1, SmallValue)
    \/ \E t \in {"c1", "c2"} : DeleteStep(t) \/ StoreStep(t) \/ MemoryWaitStep(t)
    \/ \E t \in {"c1", Worker} : DiskWriteStep(t) \/ StoreOnDiskPop(t)
    \/ WorkerStep

SpecFront == InitPop /\ [][NextFront]_vars

----------------------------------------------------------------------------
(* The mutexes held by the thread that calls kPopFunctor_.                   *)

\* C36: the thread that invokes the pop functor holds neither the memory mutex nor the
\* disk mutex during the call, so a functor that calls Get, Delete or Store of the
\* buffer does not deadlock.
C36_PopFunctorHoldsNoMutex ==
    [][\A t \in Threads : PopFunctorInvoked(t) => (memLock # t /\ diskLock # t)]_vars

\* C37: the pop functor is never invoked by a thread that holds the memory mutex,
\* neither by the worker nor by a caller writing a large value to disk itself.
C37_PopFunctorWithoutMemoryMutex ==
    [][\A t \in Threads : PopFunctorInvoked(t) => memLock # t]_vars

\* a caller writing its value to disk itself has had the pop functor invoked and is
\* still in StoreOnDisk, with the disk mutex and without the memory mutex
C37_PoppedInline ==
    \E t \in Callers :
        /\ InWaitLoop(t)
        /\ evictions[t] > 0
        /\ lastPop # NoPop
        /\ diskLock = t

----------------------------------------------------------------------------
(* What WaitForSpaceInMemory erases.                                         *)

\* this step is an erase by t in WaitForSpaceInMemory: in its loop with the mutex held,
\* or on waking in FindMemoryRemovalCandidate
EvictsFromMemory(t) ==
    /\ Len(memIndex') < Len(memIndex)
    /\ \/ pc[t] = "S_wsm" /\ memLock = t
       \/ pc[t] = "S_wait" /\ pc'[t] = "S_wsm"

\* the step erases the oldest kCompleted entry of memory and nothing else
ErasesOldestCompleted ==
    \E i \in 1..Len(memIndex) :
        /\ memIndex[i].also_on_disk = Completed
        /\ \A j \in 1..(i - 1) : memIndex[j].also_on_disk # Completed
        /\ memIndex' = Erase(memIndex, i)

\* C38: the wait for room in memory erases only the oldest kCompleted entry, never a
\* kNotStarted or kStarted one, and erases nothing when the new value already fits.
C38_EvictsOldestCompletedWhileNoRoom ==
    [][\A t \in Callers :
          EvictsFromMemory(t) =>
              /\ ErasesOldestCompleted
              /\ ~HasSpace(memCur, memMax, Len(argV[t]))]_vars

----------------------------------------------------------------------------
(* The entries the worker has marked kStarted.                               *)

\* the positions of the memory entries being copied to disk
StartedInMemory == { i \in 1..Len(memIndex) : memIndex[i].also_on_disk = Started }

\* C39: the worker copies one entry at a time, the oldest kNotStarted one, so at most
\* one memory entry is kStarted at any time.
C39_OneStartedEntry == Cardinality(StartedInMemory) <= 1

----------------------------------------------------------------------------
(* The steps of a disk record's state.                                       *)

\* the disk index keeps its records and their keys, and every record whose state
\* changes goes from kStarted to kCompleted or from kStarted to kCancelled
OnlyStartedRecordsChange ==
    /\ Len(diskIndex') = Len(diskIndex)
    /\ \A i \in 1..Len(diskIndex) :
           /\ diskIndex'[i].key = diskIndex[i].key
           /\ diskIndex'[i].state # diskIndex[i].state
                  => (diskIndex[i].state = Started
                         /\ diskIndex'[i].state \in {Completed, Cancelled})

\* one record is erased, the others are as they were; a kCompleted record goes
\* together with its file
OneRecordErased ==
    \E i \in 1..Len(diskIndex) :
        /\ diskIndex' = Erase(diskIndex, i)
        /\ diskIndex[i].state = Completed
               => GetFilename(diskIndex[i].key) \notin DOMAIN files'

\* a kStarted record is appended, the others are as they were
OneRecordAppended ==
    /\ Len(diskIndex') = Len(diskIndex) + 1
    /\ SubSeq(diskIndex', 1, Len(diskIndex)) = diskIndex
    /\ diskIndex'[Len(diskIndex')].state = Started

\* C40: a disk record's state changes only from kStarted to kCompleted or from
\* kStarted to kCancelled; a kCompleted record is only erased, with its file, and a
\* kCancelled record never becomes kStarted or kCompleted.
C40_RecordStateSteps ==
    [][OnlyStartedRecordsChange \/ OneRecordErased \/ OneRecordAppended]_vars

\* the disk index holds a kCancelled record and a kCompleted one: both changes of a
\* kStarted record have happened
C40_BothChangesSeen ==
    /\ \E i \in 1..Len(diskIndex) : diskIndex[i].state = Cancelled
    /\ \E i \in 1..Len(diskIndex) : diskIndex[i].state = Completed

====
